---- MODULE Spec2Model ----
(***************************************************************************)
(* Triage run orchestrator of the bookmark manager                         *)
(* (apps/api/src/services/triage/triage.service.ts) together with the      *)
(* triage repository it writes through                                     *)
(* (apps/api/src/repositories/bookmark.repository.ts, class                *)
(* TriageRepository).                                                      *)
(*                                                                         *)
(* Granularity.  A step of the model is the code an async function runs    *)
(* between two suspension points.  The suspension points kept are the      *)
(* awaits on a repository call, on a page fetch and on a call of the       *)
(* language-model service.  A repository method has a synchronous body     *)
(* (better-sqlite3), so its effect on the database happens when it is      *)
(* called, i.e. in the step that ends at the await; a rejection is seen    *)
(* by the step that resumes after the await.                               *)
(*                                                                         *)
(* Strings.  Nullable strings use the value "null".  A URL is a record     *)
(* [scheme, host]; a page text is a record [head, tail] whose head stands  *)
(* for its first 1000 characters.  sha256 is taken to be injective, so a   *)
(* source hash is the tuple of the fields that are concatenated into the   *)
(* digest input.                                                           *)
(*                                                                         *)
(* Environment.  The language-model service answers each request with any  *)
(* of the outcomes callOpenAiJson distinguishes; a repository call may     *)
(* reject; between runs a title may be edited and a page may change.  The  *)
(* number of such departures from the nominal scenario in one behaviour is *)
(* bounded by MaxDeviations.                                               *)
(*                                                                         *)
(* Specifications.  Spec handles the requests POST /triage/runs one at a   *)
(* time, as the route does: startRun awaits only promises that are already *)
(* settled, so it runs to its return before the next request is handled.   *)
(* SpecRace lets calls of startRun on the same instance overlap at their   *)
(* awaits.  SpecBatch runs the service over a collection of two            *)
(* categorization batches.  SpecStatus adds the calls of getRuntimeStatus  *)
(* to a service that starts over the database of an earlier process.       *)
(* SpecImport is the import service (importBookmarks and the upsert of     *)
(* BookmarkRepository) over an empty database.                             *)
(***************************************************************************)
EXTENDS Integers, Sequences, FiniteSets, TLC

\* ------------------------------------------------------------------ bounds
NumBookmarks == 2       \* rows of the bookmarks table
MaxCalls == 2           \* startRun calls, or importBookmarks calls, in one behaviour
\* Departures from the nominal scenario in one behaviour.  Nominally every
\* bookmark is live and was never triaged, the API key is set, every page is
\* served, the service answers every request with what was asked for, no
\* repository call rejects and nobody edits a row.  Each of the following costs
\* one: a bookmark that is dead or unsupported, a triage row left by an earlier
\* process, a missing API key, a service call that fails, a response item that
\* departs from the nominal one, a repository call that rejects, an edited
\* title, a changed page.
MaxDeviations == 2
MaxFileLen == 3         \* bookmarks parsed from one imported file

\* ------------------------------------------------------- program constants
CATEGORY_BATCH_SIZE == 24
SUMMARY_BATCH_SIZE == 16
PREPARE_CONCURRENCY == 6
VALIDATE_CONCURRENCY == 8

PROMPT_VERSION == "triage-v1"
CATEGORY_MODEL == "gpt-4.1-nano"
SUMMARY_MODEL == "gpt-4.1-mini"
DefaultCategories ==
  <<"Reference", "Engineering", "Learning", "News", "Tools", "Entertainment">>

BookmarkIds == 1..NumBookmarks
CallIds == 1..MaxCalls
\* run id 0 is a run of an earlier process whose rows are still in the database
RunIds == 0..MaxCalls

Null == "null"
NullUrl == [scheme |-> Null, host |-> 0]
HttpUrl(h) == [scheme |-> "https", host |-> h]

\* ------------------------------------------------------------ small helpers
Min(a, b) == IF a < b THEN a ELSE b
Max(a, b) == IF a > b THEN a ELSE b

Range(s) == {s[i] : i \in 1..Len(s)}
Includes(s, x) == \E i \in 1..Len(s) : s[i] = x

RECURSIVE SeqFilterIds(_, _)
\* items.filter(...) on a sequence of records, by membership of the id
SeqFilterIds(s, keep) ==
  IF s = <<>> THEN <<>>
  ELSE IF Head(s).id \in keep
       THEN <<Head(s)>> \o SeqFilterIds(Tail(s), keep)
       ELSE SeqFilterIds(Tail(s), keep)

\* Defective variant, to compare the properties against: only the full slices
chunkFullOnly(items, size) ==
  [k \in 1..(Len(items) \div size) |->
     SubSeq(items, (k - 1) * size + 1, k * size)]

\* chunk(items, size): the consecutive slices of at most size items
chunk(items, size) ==
  [k \in 1..((Len(items) + size - 1) \div size) |->
     SubSeq(items, (k - 1) * size + 1, Min(k * size, Len(items)))]

\* -------------------------------------------------------------- page texts
EmptyExcerpt == [head |-> "", tail |-> ""]
TextX == [head |-> "x", tail |-> ""]
TextXY == [head |-> "x", tail |-> "y"]
TextZ == [head |-> "z", tail |-> ""]

\* what a GET of a page can end in
PageError == [kind |-> "error", text |-> EmptyExcerpt]
PageNotOk == [kind |-> "notok", text |-> EmptyExcerpt]
PageNonHtml == [kind |-> "nonhtml", text |-> TextX]
HtmlPage(t) == [kind |-> "html", text |-> t]
Pages == {PageError, PageNotOk, PageNonHtml, HtmlPage(TextX), HtmlPage(TextXY), HtmlPage(TextZ)}

\* excerpt.slice(0, 1000)
Slice1000(excerpt) == excerpt.head

\* Defective variant, to compare the properties against: the body of the
\* response is read without a look at its status and content type
fetchPageExcerptAnyResponse(page) == page.text

\* fetchPageExcerpt: "" on a network error or timeout, a non-success status or
\* a content type that is not HTML; else the stripped text (at most 3000 chars)
fetchPageExcerpt(page) ==
  IF page.kind = "html" THEN page.text ELSE EmptyExcerpt

\* ---------------------------------------------------------------- bookmarks
Titles == {"t1", "t2"}

StartsWithHttp(url) == url.scheme \in {"http", "https"}

\* Defective variant, to compare the properties against: the link-health status
\* is looked at before the scheme of the address
resolveSourceTypeStatusFirst(bookmark) ==
  LET url == IF bookmark.finalUrl # NullUrl THEN bookmark.finalUrl ELSE bookmark.url
  IN IF bookmark.status = "dead" THEN "dead"
     ELSE IF bookmark.status = "redirected" THEN "redirected"
     ELSE IF ~StartsWithHttp(url) THEN "unsupported"
     ELSE "live"

resolveSourceType(bookmark) ==
  LET url == IF bookmark.finalUrl # NullUrl THEN bookmark.finalUrl ELSE bookmark.url
  IN IF ~StartsWithHttp(url) THEN "unsupported"
     ELSE IF bookmark.status = "dead" THEN "dead"
     ELSE IF bookmark.status = "redirected" THEN "redirected"
     ELSE "live"

targetUrlOf(bookmark) ==
  IF bookmark.status = "redirected"
  THEN (IF bookmark.finalUrl # NullUrl THEN bookmark.finalUrl ELSE bookmark.url)
  ELSE bookmark.url

\* Defective variants of the digest input, to compare the properties against:
\* one leaves the title out, one takes the whole excerpt
sourceHashWithoutTitle(bookmark, excerpt) ==
  <<bookmark.url, bookmark.folderPath, bookmark.status, bookmark.finalUrl,
    Slice1000(excerpt)>>
sourceHashWholeExcerpt(bookmark, excerpt) ==
  <<bookmark.url, bookmark.title, bookmark.folderPath, bookmark.status,
    bookmark.finalUrl, excerpt>>

\* the digest input of prepareBookmarks
sourceHashOf(bookmark, excerpt) ==
  <<bookmark.url, bookmark.title, bookmark.folderPath, bookmark.status,
    bookmark.finalUrl, Slice1000(excerpt)>>

\* a PreparedBookmark
Prepare(bookmark, excerpt) ==
  [id |-> bookmark.id, url |-> bookmark.url, title |-> bookmark.title,
   folderPath |-> bookmark.folderPath, status |-> bookmark.status,
   finalUrl |-> bookmark.finalUrl,
   sourceType |-> resolveSourceType(bookmark),
   targetUrl |-> targetUrlOf(bookmark),
   excerpt |-> excerpt,
   sourceHash |-> sourceHashOf(bookmark, excerpt)]

\* Defective variant, to compare the properties against: a page is fetched for
\* every bookmark that is not a dead link, unsupported schemes included
NeedsFetchUnlessDead(bookmark) == resolveSourceType(bookmark) # "dead"

NeedsFetch(bookmark) == resolveSourceType(bookmark) \in {"live", "redirected"}

\* ------------------------------------------------- in-memory RuntimeStatus
\* this.activeStatus = null
NullStatus ==
  [runId |-> 0, status |-> Null, stage |-> "idle", totalBookmarks |-> 0,
   processedCount |-> 0, cachedCount |-> 0, categorizedCount |-> 0,
   uncategorizedCount |-> 0, failedCount |-> 0, apiCalls |-> 0,
   promptTokens |-> 0, completionTokens |-> 0, lastError |-> Null]

\* the object startRun assigns to this.activeStatus
NewStatus(runId, total) ==
  [runId |-> runId, status |-> "running", stage |-> "preparing",
   totalBookmarks |-> total,
   processedCount |-> 0, cachedCount |-> 0, categorizedCount |-> 0,
   uncategorizedCount |-> 0, failedCount |-> 0, apiCalls |-> 0,
   promptTokens |-> 0, completionTokens |-> 0, lastError |-> Null]

setStage(s, stage) ==
  IF s.status = Null THEN s ELSE [s EXCEPT !.stage = stage]

bumpCounts(s, processed, cached, categorized, uncategorized, failed) ==
  IF s.status = Null THEN s
  ELSE [s EXCEPT !.processedCount = @ + processed,
                 !.cachedCount = @ + cached,
                 !.categorizedCount = @ + categorized,
                 !.uncategorizedCount = @ + uncategorized,
                 !.failedCount = @ + failed]

recordUsage(s, usage) ==
  IF s.status = Null THEN s
  ELSE [s EXCEPT !.apiCalls = @ + 1,
                 !.promptTokens = @ + usage.promptTokens,
                 !.completionTokens = @ + usage.completionTokens]

\* the counters a repository write copies from this.activeStatus (?? 0 when null)
CountersOf(s) ==
  [processedCount |-> s.processedCount, cachedCount |-> s.cachedCount,
   categorizedCount |-> s.categorizedCount,
   uncategorizedCount |-> s.uncategorizedCount,
   failedCount |-> s.failedCount, apiCalls |-> s.apiCalls,
   promptTokens |-> s.promptTokens, completionTokens |-> s.completionTokens]

\* ------------------------------------------------------ table triage_runs
NoRun ==
  [exists |-> FALSE, status |-> Null, totalBookmarks |-> 0,
   processedCount |-> 0, cachedCount |-> 0, categorizedCount |-> 0,
   uncategorizedCount |-> 0, failedCount |-> 0, apiCalls |-> 0,
   promptTokens |-> 0, completionTokens |-> 0, errorMessage |-> Null,
   startedAt |-> 0]

WithCounters(row, c) ==
  [row EXCEPT !.processedCount = c.processedCount,
              !.cachedCount = c.cachedCount,
              !.categorizedCount = c.categorizedCount,
              !.uncategorizedCount = c.uncategorizedCount,
              !.failedCount = c.failedCount,
              !.apiCalls = c.apiCalls,
              !.promptTokens = c.promptTokens,
              !.completionTokens = c.completionTokens]

\* INSERT INTO triage_runs (..., status, ...) VALUES (?, 'running', ...)
\* started_at is the time of the call, later than that of every row there is
createRun(tbl, id, total) ==
  [tbl EXCEPT ![id] = [NoRun EXCEPT !.exists = TRUE, !.status = "running",
                                    !.totalBookmarks = total,
                                    !.startedAt =
                                       1 + (CHOOSE m \in {tbl[r].startedAt : r \in DOMAIN tbl} :
                                              \A r \in DOMAIN tbl : tbl[r].startedAt <= m)]]

\* UPDATE triage_runs SET <counters> WHERE id = ?
updateRunProgress(tbl, id, c) ==
  IF tbl[id].exists THEN [tbl EXCEPT ![id] = WithCounters(@, c)] ELSE tbl

\* UPDATE triage_runs SET status = 'completed', <counters> WHERE id = ?
completeRun(tbl, id, c) ==
  IF tbl[id].exists
  THEN [tbl EXCEPT ![id] = [WithCounters(@, c) EXCEPT !.status = "completed"]]
  ELSE tbl

\* UPDATE triage_runs SET status = 'failed', <counters>, error_message = ? WHERE id = ?
failRun(tbl, id, c, message) ==
  IF tbl[id].exists
  THEN [tbl EXCEPT ![id] = [WithCounters(@, c) EXCEPT !.status = "failed",
                                                     !.errorMessage = message]]
  ELSE tbl

\* SELECT id FROM triage_runs ORDER BY started_at DESC LIMIT 1: the ids it can
\* yield, none when the table is empty
getLatestRun(tbl) ==
  {r \in DOMAIN tbl :
     /\ tbl[r].exists
     /\ \A q \in DOMAIN tbl : tbl[q].exists => tbl[q].startedAt <= tbl[r].startedAt}

\* Defective variant, to compare the properties against: getRuntimeStatus that
\* maps every status of the latest row but completed to stage idle
getRuntimeStatusNoFailedStage(s, tbl, latest) ==
  IF s.status # Null THEN s
  ELSE IF latest \notin DOMAIN tbl THEN NullStatus
  ELSE [runId |-> latest, status |-> tbl[latest].status,
        stage |-> IF tbl[latest].status = "completed" THEN "completed" ELSE "idle",
        totalBookmarks |-> tbl[latest].totalBookmarks,
        processedCount |-> tbl[latest].processedCount,
        cachedCount |-> tbl[latest].cachedCount,
        categorizedCount |-> tbl[latest].categorizedCount,
        uncategorizedCount |-> tbl[latest].uncategorizedCount,
        failedCount |-> tbl[latest].failedCount,
        apiCalls |-> tbl[latest].apiCalls,
        promptTokens |-> tbl[latest].promptTokens,
        completionTokens |-> tbl[latest].completionTokens,
        lastError |-> tbl[latest].errorMessage]

\* getRuntimeStatus, where latest is the id getLatestRun yielded if it was
\* called and yielded one; null is NullStatus
getRuntimeStatus(s, tbl, latest) ==
  IF s.status # Null THEN s
  ELSE IF latest \notin DOMAIN tbl THEN NullStatus
  ELSE [runId |-> latest, status |-> tbl[latest].status,
        stage |-> IF tbl[latest].status = "completed" THEN "completed"
                  ELSE IF tbl[latest].status = "failed" THEN "failed"
                  ELSE "idle",
        totalBookmarks |-> tbl[latest].totalBookmarks,
        processedCount |-> tbl[latest].processedCount,
        cachedCount |-> tbl[latest].cachedCount,
        categorizedCount |-> tbl[latest].categorizedCount,
        uncategorizedCount |-> tbl[latest].uncategorizedCount,
        failedCount |-> tbl[latest].failedCount,
        apiCalls |-> tbl[latest].apiCalls,
        promptTokens |-> tbl[latest].promptTokens,
        completionTokens |-> tbl[latest].completionTokens,
        lastError |-> tbl[latest].errorMessage]

\* --------------------------------------------------- table bookmark_triage
NoRow == [exists |-> FALSE]

\* INSERT ... ON CONFLICT(bookmark_id) DO UPDATE, one row after the other
RECURSIVE upsertBookmarkTriages(_, _)
upsertBookmarkTriages(tbl, rows) ==
  IF rows = <<>> THEN tbl
  ELSE upsertBookmarkTriages([tbl EXCEPT ![Head(rows).bookmarkId] = Head(rows)],
                             Tail(rows))

\* the row written for one bookmark (cache hit or fresh result)
TriageRow(bookmark, runId, category, tags, summary, reasonCode, confidence) ==
  [exists |-> TRUE, bookmarkId |-> bookmark.id, triageRunId |-> runId,
   sourceHash |-> bookmark.sourceHash, sourceType |-> bookmark.sourceType,
   category |-> category, tags |-> tags, summary |-> summary,
   reasonCode |-> reasonCode, confidence |-> confidence,
   categoryModel |-> CATEGORY_MODEL, summaryModel |-> SUMMARY_MODEL,
   promptVersion |-> PROMPT_VERSION]

\* ------------------------------------------- language-model service values
\* A string of a service payload: isString is FALSE for a JSON value of another
\* type; core is the text left by normalizeWhitespace ("" for blank text).
Str(core) == [isString |-> TRUE, core |-> core]
NonString == [isString |-> FALSE, core |-> ""]

NullConfidence == [t |-> Null, v |-> 0]
\* confidence values in hundredths: 0.73, 1.5, -0.2; NaN; the string "high"; absent
Confidences ==
  {[t |-> "number", v |-> 73], [t |-> "number", v |-> 150], [t |-> "number", v |-> 0 - 20],
   [t |-> "nan", v |-> 0], [t |-> "string", v |-> 0], [t |-> "undefined", v |-> 0]}

\* typeof c === "number" && Number.isFinite(c) ? Math.min(1, Math.max(0, c)) : null
normalizeConfidence(c) ==
  IF c.t = "number" THEN [t |-> "number", v |-> Min(100, Max(0, c.v))]
  ELSE NullConfidence

RECURSIVE MapNormalizeWhitespace(_)
\* strings.map(normalizeWhitespace).filter(s => s.length > 0); normalizeWhitespace
\* calls input.replace, which throws a TypeError on a value that is not a string
MapNormalizeWhitespace(raw) ==
  IF raw = <<>> THEN [threw |-> FALSE, value |-> <<>>]
  ELSE IF ~Head(raw).isString THEN [threw |-> TRUE, value |-> <<>>]
  ELSE LET rest == MapNormalizeWhitespace(Tail(raw))
       IN IF rest.threw THEN rest
          ELSE [threw |-> FALSE,
                value |-> IF Head(raw).core = "" THEN rest.value
                          ELSE <<Head(raw).core>> \o rest.value]

SliceTo(s, n) == SubSeq(s, 1, Min(n, Len(s)))

NoResult == [present |-> FALSE]
CategoryResult(id, category, tags, confidence, reasonCode) ==
  [present |-> TRUE, id |-> id, category |-> category, tags |-> tags,
   confidence |-> confidence, reasonCode |-> reasonCode]

\* an item of a categorization response; MissingItem: byId.get(id) is undefined
MissingItem == [present |-> FALSE]
Item(id, category, tags, confidence, reasonCode) ==
  [present |-> TRUE, id |-> id, category |-> category,
   tagsIsArray |-> TRUE, tags |-> tags,
   confidence |-> confidence, reasonCode |-> reasonCode]

\* Defective variant, to compare the properties against: normalizeCategoryResult
\* that takes the category of the item without looking it up in the taxonomy
normalizeCategoryResultAnyCategory(item, categories) ==
  IF ~item.present
  THEN [threw |-> FALSE,
        value |-> CategoryResult(0, Null, <<>>, NullConfidence, "missing_model_output")]
  ELSE
    LET category == IF item.category # Null /\ item.category # ""
                    THEN item.category ELSE Null
        tags == IF item.tagsIsArray THEN MapNormalizeWhitespace(item.tags)
                ELSE [threw |-> FALSE, value |-> <<>>]
    IN IF tags.threw THEN [threw |-> TRUE, value |-> NoResult]
       ELSE [threw |-> FALSE,
             value |-> CategoryResult(
                item.id, category, SliceTo(tags.value, 5),
                normalizeConfidence(item.confidence),
                IF category # Null THEN Null
                ELSE IF item.reasonCode # Null THEN item.reasonCode
                ELSE "not_enough_signal")]

\* normalizeCategoryResult: [threw, value]
normalizeCategoryResult(item, categories) ==
  IF ~item.present
  THEN [threw |-> FALSE,
        value |-> CategoryResult(0, Null, <<>>, NullConfidence, "missing_model_output")]
  ELSE
    LET category == IF item.category # Null /\ item.category # ""
                       /\ Includes(categories, item.category)
                    THEN item.category ELSE Null
        tags == IF item.tagsIsArray THEN MapNormalizeWhitespace(item.tags)
                ELSE [threw |-> FALSE, value |-> <<>>]
    IN IF tags.threw THEN [threw |-> TRUE, value |-> NoResult]
       ELSE [threw |-> FALSE,
             value |-> CategoryResult(
                item.id, category, SliceTo(tags.value, 5),
                normalizeConfidence(item.confidence),
                IF category # Null THEN Null
                ELSE IF item.reasonCode # Null THEN item.reasonCode
                ELSE "not_enough_signal")]

\* ---------------------------------------------------------------- summaries
Summary(kind, title, len) == [kind |-> kind, title |-> title, len |-> len]
NoSummary == [kind |-> Null, title |-> Null, len |-> 0]

localFallbackSummary(bookmark) ==
  IF bookmark.sourceType = "dead" THEN Summary("fallback_dead", bookmark.title, 0)
  ELSE IF bookmark.sourceType = "unsupported"
       THEN Summary("fallback_unsupported", bookmark.title, 0)
  ELSE IF bookmark.excerpt # EmptyExcerpt
       THEN Summary("fallback_excerpt", bookmark.title, 0)
  ELSE Summary("fallback_metadata", bookmark.title, 0)

\* the text runSummaries itself writes for an unsupported bookmark
UnsupportedSchemeSummary(bookmark) == Summary("unsupported_scheme", bookmark.title, 0)

\* a summary of a response: absent, or text of a normalized length
MissingSummary == [present |-> FALSE, len |-> 0]
RawSummary(len) == [present |-> TRUE, len |-> len]

normalizeSummary(rawSummary, bookmark) ==
  IF ~rawSummary.present \/ rawSummary.len = 0 THEN localFallbackSummary(bookmark)
  ELSE IF rawSummary.len < 12 THEN localFallbackSummary(bookmark)
  ELSE Summary("model", Null, Min(rawSummary.len, 420))

\* ==================================================================== state
VARIABLES
  bookmarks,     \* table bookmarks: id -> row
  web,           \* host -> what a GET of the page ends in now
  triage,        \* table bookmark_triage: bookmark id -> row or NoRow
  runs,          \* table triage_runs: run id -> row or NoRun
  apiKey,        \* process.env.OPENAI_API_KEY is set
  activeStatus,  \* TriageService.activeStatus
  call,          \* the startRun calls: position, locals, returned value
  pipe,          \* the executeRun invocations: position and locals, by run id
  posts,         \* requests sent to the language-model service, by run id and step
  view,          \* what getRuntimeStatus returned, if the last step was a call of it
  imports,       \* the importBookmarks calls: position, locals, response
  budget         \* departures from the nominal scenario that may still happen

vars ==
  <<bookmarks, web, triage, runs, apiKey, activeStatus, call, pipe, posts, view,
    imports, budget>>

\* the ids of the rows of table bookmarks
StoredIds == DOMAIN bookmarks

Terminal == {"completed", "failed"}

\* no call of getRuntimeStatus took place in the last step
NoView == [called |-> FALSE, threw |-> FALSE, result |-> NullStatus]

\* ------------------------------------------------- locals of executeRun
NoItem == [id |-> 0]
\* no response of the service is held: response is a local of one batch
NoOutcome == [kind |-> "none"]
IdlePipe ==
  [pc |-> "none", rejected |-> FALSE, err |-> Null, ignoreCache |-> FALSE,
   bookmarks |-> <<>>, cache |-> [b \in StoredIds |-> NoRow],
   queue |-> <<>>, runners |-> <<>>, prepared |-> <<>>,
   cacheRows |-> <<>>, toProcess |-> <<>>, categories |-> <<>>,
   catIdx |-> 0, results |-> [b \in StoredIds |-> NoResult],
   pending |-> <<>>, sumIdx |-> 0,
   summaries |-> [b \in StoredIds |-> NoSummary], sent |-> <<>>,
   received |-> NoOutcome, hung |-> FALSE]

\* the repository or network call a step ends with
NoOp == [kind |-> "none"]
ReadOp == [kind |-> "read"]
UpsertOp(rows) == [kind |-> "upsert", rows |-> rows]
ProgressOp(id, c) == [kind |-> "progress", id |-> id, counters |-> c]
CompleteOp(id, c) == [kind |-> "complete", id |-> id, counters |-> c]
FailOp(id, c, message) ==
  [kind |-> "fail", id |-> id, counters |-> c, message |-> message]
PostOp(step) == [kind |-> "post", step |-> step]

Step(s, p, op) == [s |-> s, p |-> p, op |-> op]

\* Defective variant, to compare the properties against: the catch block
\* hands failRun the counters of a run that has not counted anything
CatchFreshCounters(runId, s, p, message) ==
  Step(s, [p EXCEPT !.pc = "await_failRun", !.rejected = FALSE, !.err = message],
       FailOp(runId, [CountersOf(NullStatus) EXCEPT !.failedCount = 1], message))

\* the catch block of executeRun up to its await of failRun
Catch(runId, s, p, message) ==
  Step(s, [p EXCEPT !.pc = "await_failRun", !.rejected = FALSE, !.err = message],
       FailOp(runId, [CountersOf(s) EXCEPT !.failedCount = @ + 1], message))

\* persistProgress(runId): nothing when there is no activeStatus
persistProgress(runId, s) ==
  IF s.status = Null THEN NoOp ELSE ProgressOp(runId, CountersOf(s))

\* ------------------------------------------------- executeRun, step by step
\* from the call of executeRun to its first await
executeRunStart(runId, s, snapshot, ignoreCache) ==
  LET p == [IdlePipe EXCEPT !.bookmarks = snapshot, !.ignoreCache = ignoreCache]
  IN IF ~apiKey THEN Catch(runId, s, p, "OPENAI_API_KEY is not set")
     ELSE Step(s, [p EXCEPT !.pc = "await_cache", !.cache = triage], ReadOp)

RECURSIVE TakeAll(_, _, _)
\* a runner of runWithConcurrency takes the next item: the worker of a bookmark
\* that is not fetched finishes at once and pushes its PreparedBookmark
TakeNext(p, i) ==
  IF p.queue = <<>> THEN [p EXCEPT !.runners[i] = [st |-> "finished", item |-> NoItem]]
  ELSE LET next == Head(p.queue)
       IN IF NeedsFetch(next)
          THEN [p EXCEPT !.queue = Tail(@),
                         !.runners[i] = [st |-> "fetching", item |-> next]]
          ELSE [p EXCEPT !.queue = Tail(@),
                         !.prepared = Append(@, Prepare(next, EmptyExcerpt)),
                         !.runners[i] = [st |-> "yield", item |-> NoItem]]
TakeAll(p, i, n) == IF i > n THEN p ELSE TakeAll(TakeNext(p, i), i + 1, n)

\* Defective variant, to compare the properties against: a pool that has one
\* runner for every bookmark
prepareBookmarksStartUnbounded(s, p) ==
  LET n == Len(p.bookmarks)
      p1 == [p EXCEPT !.pc = "preparing", !.queue = p.bookmarks,
                      !.runners = [i \in 1..n |-> [st |-> "new", item |-> NoItem]]]
  IN Step(setStage(s, "preparing"), TakeAll(p1, 1, n), NoOp)

\* prepareBookmarks up to the first suspension of every runner
prepareBookmarksStart(s, p) ==
  LET n == Min(Max(PREPARE_CONCURRENCY, 1), Len(p.bookmarks))
      p1 == [p EXCEPT !.pc = "preparing", !.queue = p.bookmarks,
                      !.runners = [i \in 1..n |-> [st |-> "new", item |-> NoItem]]]
  IN Step(setStage(s, "preparing"), TakeAll(p1, 1, n), NoOp)

\* what fetch(url) ends in now: it throws for an address that is not http(s)
GetPage(url) == IF StartsWithHttp(url) THEN web[url.host] ELSE PageError

\* a runner resumes: the fetch it waited for has ended, then it takes the next item
runnerResume(s, p, i) ==
  LET r == p.runners[i]
      p1 == IF r.st = "fetching"
            THEN [p EXCEPT !.prepared =
                    Append(@, Prepare(r.item,
                                      fetchPageExcerpt(GetPage(targetUrlOf(r.item)))))]
            ELSE p
  IN Step(s, TakeNext(p1, i), NoOp)

Truthy(str) == str # Null /\ str # ""

\* Defective variant, to compare the properties against: the prompt version of
\* the cached record is not looked at
cacheValidAnyPrompt(ignoreCache, cached, bookmark) ==
  /\ ~ignoreCache
  /\ cached.exists
  /\ cached.sourceHash = bookmark.sourceHash
  /\ cached.categoryModel = CATEGORY_MODEL
  /\ cached.summaryModel = SUMMARY_MODEL

cacheValid(ignoreCache, cached, bookmark) ==
  /\ ~ignoreCache
  /\ cached.exists
  /\ cached.sourceHash = bookmark.sourceHash
  /\ cached.categoryModel = CATEGORY_MODEL
  /\ cached.summaryModel = SUMMARY_MODEL
  /\ cached.promptVersion = PROMPT_VERSION

RECURSIVE partitionLoop(_, _, _, _)
\* the loop over prepared: acc = [s, cacheRows, toProcess]
partitionLoop(runId, p, k, acc) ==
  IF k > Len(p.prepared) THEN acc
  ELSE LET bookmark == p.prepared[k]
           cached == p.cache[bookmark.id]
       IN IF cacheValid(p.ignoreCache, cached, bookmark)
          THEN partitionLoop(runId, p, k + 1,
                 [s |-> bumpCounts(acc.s, 1, 1,
                                   IF Truthy(cached.category) THEN 1 ELSE 0,
                                   IF Truthy(cached.category) THEN 0 ELSE 1, 0),
                  cacheRows |-> Append(acc.cacheRows,
                     TriageRow(bookmark, runId, cached.category, cached.tags,
                               cached.summary, cached.reasonCode, cached.confidence)),
                  toProcess |-> acc.toProcess])
          ELSE partitionLoop(runId, p, k + 1,
                 [acc EXCEPT !.toProcess = Append(@, bookmark)])

\* Defective variant, to compare the properties against: the partition stores
\* a row for the bookmarks to process as well, before they are categorized
partitionStepWritesAll(runId, s, p) ==
  LET acc == partitionLoop(runId, p, 1,
                           [s |-> s, cacheRows |-> <<>>, toProcess |-> <<>>])
      p1 == [p EXCEPT !.pc = "await_upsertCache", !.cacheRows = acc.cacheRows,
                      !.toProcess = acc.toProcess]
      rows == acc.cacheRows \o
              [k \in 1..Len(acc.toProcess) |->
                 TriageRow(acc.toProcess[k], runId, Null, <<>>,
                           localFallbackSummary(acc.toProcess[k]), Null,
                           NullConfidence)]
  IN Step(acc.s, p1, IF rows = <<>> THEN NoOp ELSE UpsertOp(rows))

\* the cache partition and the upsert of the cache rows
partitionStep(runId, s, p) ==
  LET acc == partitionLoop(runId, p, 1,
                           [s |-> s, cacheRows |-> <<>>, toProcess |-> <<>>])
  IN Step(acc.s,
          [p EXCEPT !.pc = "await_upsertCache", !.cacheRows = acc.cacheRows,
                    !.toProcess = acc.toProcess],
          IF acc.cacheRows = <<>> THEN NoOp ELSE UpsertOp(acc.cacheRows))

\* what a call of the language-model service can end in: callOpenAiJson throws
\* (no connection, non-2xx, no content, content that is not JSON) or returns the
\* parsed content with the usage; content of the wrong shape is "malformed"
ThrowOutcome == [kind |-> "throw"]
MalformedOutcome(u) == [kind |-> "malformed", usage |-> u]
OkOutcome(data, u) == [kind |-> "ok", data |-> data, usage |-> u]

\* discoverCategories after its call returned; [threw, s, categories]
discoverCategories(s, outcome) ==
  LET s1 == recordUsage(s, outcome.usage)
      names == IF outcome.kind = "ok" THEN MapNormalizeWhitespace(outcome.data)
               ELSE [threw |-> TRUE, value |-> <<>>]
      categories == SliceTo(names.value, 16)
  IN [threw |-> names.threw, s |-> s1,
      categories |-> IF Len(categories) > 0 THEN categories ELSE DefaultCategories]

CategoryBatches(p) == chunk(p.toProcess, CATEGORY_BATCH_SIZE)
SummaryBatches(p) == chunk(p.pending, SUMMARY_BATCH_SIZE)

\* the rows of the bookmarks that were processed afresh
FreshRows(runId, p) ==
  [k \in 1..Len(p.toProcess) |->
     LET bookmark == p.toProcess[k]
         assignment == p.results[bookmark.id]
         summary == IF p.summaries[bookmark.id] # NoSummary
                    THEN p.summaries[bookmark.id]
                    ELSE localFallbackSummary(bookmark)
     IN IF assignment.present
        THEN TriageRow(bookmark, runId, assignment.category, assignment.tags,
                       summary, assignment.reasonCode, assignment.confidence)
        ELSE TriageRow(bookmark, runId, Null, <<>>, summary, Null, NullConfidence)]

\* after runSummaries: the rows of toProcess and their upsert
finalRowsStep(runId, s, p) ==
  LET rows == FreshRows(runId, p)
  IN Step(s, [p EXCEPT !.pc = "await_upsertRows"],
          IF rows = <<>> THEN NoOp ELSE UpsertOp(rows))

\* Defective variant, to compare the properties against: the payload is built
\* without the assignments of runCategorization
SummaryPayloadUnassigned(p, batch) ==
  [k \in 1..Len(batch) |->
     [id |-> batch[k].id, title |-> batch[k].title, category |-> Null,
      tags |-> <<>>]]

\* the bookmarks of the payload of a summarization request: what the
\* assignments hold for each, null and no tags where they hold nothing
SummaryPayload(p, batch) ==
  [k \in 1..Len(batch) |->
     LET assignment == p.results[batch[k].id]
     IN [id |-> batch[k].id, title |-> batch[k].title,
         category |-> IF assignment.present THEN assignment.category ELSE Null,
         tags |-> IF assignment.present THEN assignment.tags ELSE <<>>]]

\* runSummaries: the next batch is sent, or the function returns
summariesNext(runId, s, p) ==
  IF p.sumIdx <= Len(SummaryBatches(p))
  THEN Step(s, [p EXCEPT !.pc = "await_summarize",
                         !.sent = SummaryPayload(p, SummaryBatches(p)[p.sumIdx])],
            PostOp("summarize"))
  ELSE finalRowsStep(runId, s, p)

\* Defective variant, to compare the properties against: runSummaries that
\* writes no local text for dead bookmarks and sends them with the others
summariesStartDeadPending(runId, s, p) ==
  LET local == [b \in StoredIds |->
                  IF \E k \in 1..Len(p.toProcess) :
                        /\ p.toProcess[k].id = b
                        /\ p.toProcess[k].sourceType = "unsupported"
                  THEN UnsupportedSchemeSummary(
                         CHOOSE x \in Range(p.toProcess) : x.id = b)
                  ELSE NoSummary]
      pendingIds == {b \in StoredIds : local[b] = NoSummary}
  IN summariesNext(runId, s,
       [p EXCEPT !.summaries = local,
                 !.pending = SeqFilterIds(p.toProcess, pendingIds),
                 !.sumIdx = 1])

\* runSummaries up to its first call: local texts for dead and unsupported
summariesStart(runId, s, p) ==
  LET local == [b \in StoredIds |->
                  IF \E k \in 1..Len(p.toProcess) :
                        /\ p.toProcess[k].id = b
                        /\ p.toProcess[k].sourceType \in {"dead", "unsupported"}
                  THEN LET bookmark == CHOOSE x \in Range(p.toProcess) : x.id = b
                       IN IF bookmark.sourceType = "unsupported"
                          THEN UnsupportedSchemeSummary(bookmark)
                          ELSE localFallbackSummary(bookmark)
                  ELSE NoSummary]
      pendingIds == {b \in StoredIds : local[b] = NoSummary}
  IN summariesNext(runId, s,
       [p EXCEPT !.summaries = local,
                 !.pending = SeqFilterIds(p.toProcess, pendingIds),
                 !.sumIdx = 1])

\* runCategorization: the next batch is sent, or the function returns and
\* executeRun moves on to runSummaries
categorizationNext(runId, s, p) ==
  IF p.catIdx <= Len(CategoryBatches(p))
  THEN Step(s, [p EXCEPT !.pc = "await_categorize"], PostOp("categorize"))
  ELSE summariesStart(runId, setStage(s, "summarizing"), p)

RECURSIVE categorizeLoop(_, _, _, _, _)
\* the loop of the try block over a batch: acc = [threw, s, results]
categorizeLoop(batch, k, byId, categories, acc) ==
  IF k > Len(batch) THEN acc
  ELSE LET bookmark == batch[k]
           normalized == normalizeCategoryResult(byId[bookmark.id], categories)
       IN IF normalized.threw THEN [acc EXCEPT !.threw = TRUE]
          ELSE categorizeLoop(batch, k + 1, byId, categories,
                 [threw |-> FALSE,
                  s |-> bumpCounts(acc.s, 1, 0,
                                   IF Truthy(normalized.value.category) THEN 1 ELSE 0,
                                   IF Truthy(normalized.value.category) THEN 0 ELSE 1, 0),
                  results |-> [acc.results EXCEPT ![bookmark.id] = normalized.value]])

RECURSIVE categorizeFailedLoop(_, _, _)
\* the loop of the catch block over a batch
categorizeFailedLoop(batch, k, acc) ==
  IF k > Len(batch) THEN acc
  ELSE categorizeFailedLoop(batch, k + 1,
         [threw |-> FALSE,
          s |-> bumpCounts(acc.s, 1, 0, 0, 1, 1),
          results |-> [acc.results EXCEPT ![batch[k].id] =
             CategoryResult(batch[k].id, Null, <<>>, NullConfidence,
                            "categorization_failed")]])

\* Defective variant, to compare the properties against: runCategorization that
\* does not await persistProgress and sends the next batch at once
categorizeBatchNoAwait(s, p, outcome) ==
  LET batch == CategoryBatches(p)[p.catIdx]
      start == [threw |-> FALSE, s |-> s, results |-> p.results]
      tried == IF outcome.kind = "throw" THEN [start EXCEPT !.threw = TRUE]
               ELSE IF outcome.kind = "malformed"
                    THEN [start EXCEPT !.threw = TRUE,
                                       !.s = recordUsage(s, outcome.usage)]
               ELSE categorizeLoop(batch, 1, outcome.data, p.categories,
                      [start EXCEPT !.s = recordUsage(s, outcome.usage)])
      acc == IF tried.threw THEN categorizeFailedLoop(batch, 1, tried) ELSE tried
  IN IF p.catIdx < Len(CategoryBatches(p))
     THEN Step(acc.s, [p EXCEPT !.pc = "await_categorize", !.catIdx = @ + 1,
                               !.results = acc.results, !.received = outcome],
               PostOp("categorize"))
     ELSE Step(acc.s, [p EXCEPT !.pc = "await_persistCat", !.results = acc.results,
                               !.received = outcome],
               persistProgress(acc.s.runId, acc.s))

\* Defective variant, to compare the properties against: runCategorization whose
\* catch block does nothing
categorizeBatchEmptyCatch(s, p, outcome) ==
  LET batch == CategoryBatches(p)[p.catIdx]
      start == [threw |-> FALSE, s |-> s, results |-> p.results]
      acc == IF outcome.kind = "throw" THEN start
             ELSE IF outcome.kind = "malformed"
                  THEN [start EXCEPT !.s = recordUsage(s, outcome.usage)]
             ELSE categorizeLoop(batch, 1, outcome.data, p.categories,
                    [start EXCEPT !.s = recordUsage(s, outcome.usage)])
  IN Step(acc.s, [p EXCEPT !.pc = "await_persistCat", !.results = acc.results,
                            !.received = outcome],
          persistProgress(acc.s.runId, acc.s))

\* one batch of runCategorization after its call ended, to the await of persistProgress
categorizeBatch(s, p, outcome) ==
  LET batch == CategoryBatches(p)[p.catIdx]
      start == [threw |-> FALSE, s |-> s, results |-> p.results]
      tried == IF outcome.kind = "throw" THEN [start EXCEPT !.threw = TRUE]
               ELSE IF outcome.kind = "malformed"
                    THEN [start EXCEPT !.threw = TRUE,
                                       !.s = recordUsage(s, outcome.usage)]
               ELSE categorizeLoop(batch, 1, outcome.data, p.categories,
                      [start EXCEPT !.s = recordUsage(s, outcome.usage)])
      acc == IF tried.threw THEN categorizeFailedLoop(batch, 1, tried) ELSE tried
  IN Step(acc.s, [p EXCEPT !.pc = "await_persistCat", !.results = acc.results,
                            !.received = outcome],
          persistProgress(acc.s.runId, acc.s))

RECURSIVE summarizeLoop(_, _, _, _)
summarizeLoop(batch, k, byId, summaries) ==
  IF k > Len(batch) THEN summaries
  ELSE summarizeLoop(batch, k + 1, byId,
         [summaries EXCEPT ![batch[k].id] = normalizeSummary(byId[batch[k].id], batch[k])])

RECURSIVE summarizeFailedLoop(_, _, _)
\* the catch block: acc = [s, summaries]
summarizeFailedLoop(batch, k, acc) ==
  IF k > Len(batch) THEN acc
  ELSE summarizeFailedLoop(batch, k + 1,
         [s |-> bumpCounts(acc.s, 0, 0, 0, 0, 1),
          summaries |-> [acc.summaries EXCEPT ![batch[k].id] =
                            localFallbackSummary(batch[k])]])

\* Defective variant, to compare the properties against: runSummaries whose
\* catch block writes the fallback texts and counts no failure
summarizeBatchNoCount(s, p, outcome) ==
  LET batch == SummaryBatches(p)[p.sumIdx]
      failed(s0) == [s |-> s0,
                     summaries |-> summarizeFailedLoop(batch, 1,
                                     [s |-> s0, summaries |-> p.summaries]).summaries]
      acc == IF outcome.kind = "throw" THEN failed(s)
             ELSE IF outcome.kind = "malformed"
                  THEN failed(recordUsage(s, outcome.usage))
             ELSE [s |-> recordUsage(s, outcome.usage),
                   summaries |-> summarizeLoop(batch, 1, outcome.data, p.summaries)]
  IN Step(acc.s, [p EXCEPT !.pc = "await_persistSum", !.summaries = acc.summaries,
                            !.received = outcome],
          persistProgress(acc.s.runId, acc.s))

\* one batch of runSummaries after its call ended, to the await of persistProgress
summarizeBatch(s, p, outcome) ==
  LET batch == SummaryBatches(p)[p.sumIdx]
      acc == IF outcome.kind = "throw"
             THEN summarizeFailedLoop(batch, 1, [s |-> s, summaries |-> p.summaries])
             ELSE IF outcome.kind = "malformed"
                  THEN summarizeFailedLoop(batch, 1,
                         [s |-> recordUsage(s, outcome.usage), summaries |-> p.summaries])
             ELSE [s |-> recordUsage(s, outcome.usage),
                   summaries |-> summarizeLoop(batch, 1, outcome.data, p.summaries)]
  IN Step(acc.s, [p EXCEPT !.pc = "await_persistSum", !.summaries = acc.summaries,
                            !.received = outcome],
          persistProgress(acc.s.runId, acc.s))

\* the step of executeRun that resumes at position p0.pc, given what the awaited
\* service call ended in (outcome is not read at the other positions); the
\* response of the batch before is no longer held
executeRunResume(runId, s, p0, outcome) ==
  LET p == [p0 EXCEPT !.received = NoOutcome]
  IN
  IF p.pc = "await_failRun"
  THEN IF p.rejected THEN Step(s, [p EXCEPT !.pc = "escaped"], NoOp)
       ELSE Step(IF s.status = Null THEN s
                 ELSE [s EXCEPT !.status = "failed", !.stage = "failed",
                                !.failedCount = @ + 1, !.lastError = p.err],
                 [p EXCEPT !.pc = "done"], NoOp)
  ELSE IF p.rejected THEN Catch(runId, s, p, "repository error")
  ELSE IF p.pc = "await_cache" THEN prepareBookmarksStart(s, p)
  ELSE IF p.pc = "preparing" THEN partitionStep(runId, s, p)
  ELSE IF p.pc = "await_upsertCache"
       THEN Step(s, [p EXCEPT !.pc = "await_persist1"], persistProgress(runId, s))
  ELSE IF p.pc = "await_persist1"
       THEN Step(setStage(s, "discovering_categories"),
                 [p EXCEPT !.pc = "await_discover"], PostOp("discover"))
  ELSE IF p.pc = "await_discover"
       THEN IF outcome.kind = "throw" THEN Catch(runId, s, p, "OpenAI request failed")
            ELSE LET d == discoverCategories(s, outcome)
                 IN IF d.threw THEN Catch(runId, d.s, p, "TypeError")
                    ELSE categorizationNext(runId, setStage(d.s, "categorizing"),
                           [p EXCEPT !.categories = d.categories, !.catIdx = 1])
  ELSE IF p.pc = "await_categorize" THEN categorizeBatch(s, p, outcome)
  ELSE IF p.pc = "await_persistCat"
       THEN categorizationNext(runId, s, [p EXCEPT !.catIdx = @ + 1])
  ELSE IF p.pc = "await_summarize" THEN summarizeBatch(s, p, outcome)
  ELSE IF p.pc = "await_persistSum"
       THEN summariesNext(runId, s, [p EXCEPT !.sumIdx = @ + 1])
  ELSE IF p.pc = "await_upsertRows"
       THEN Step(s, [p EXCEPT !.pc = "await_persist2"], persistProgress(runId, s))
  ELSE IF p.pc = "await_persist2"
       THEN Step(setStage(s, "finalizing"), [p EXCEPT !.pc = "await_complete"],
                 CompleteOp(runId, CountersOf(setStage(s, "finalizing"))))
  ELSE \* await_complete
       Step(IF s.status = Null THEN s
            ELSE [s EXCEPT !.status = "completed", !.stage = "completed"],
            [p EXCEPT !.pc = "done"], NoOp)

\* ============================================================== environment
Usage == [promptTokens |-> 3, completionTokens |-> 2]

\* the nominal answers of the service
NominalCategories == <<Str("A")>>
NominalItem(id) == Item(id, "A", <<Str("x")>>, [t |-> "number", v |-> 73], Null)
NominalSummary == RawSummary(40)

\* what the service may answer to the discovery request, with its cost
DiscoverOutcomes ==
  {[outcome |-> OkOutcome(NominalCategories, Usage), cost |-> 0],
   [outcome |-> OkOutcome(<<Str("B")>>, Usage), cost |-> 1],
   [outcome |-> OkOutcome(<<Str("")>>, Usage), cost |-> 1],
   [outcome |-> MalformedOutcome(Usage), cost |-> 1],
   [outcome |-> ThrowOutcome, cost |-> 1]}

\* what the service may return for one bookmark of a categorization batch
\* instead of the nominal item
OddItems(id) ==
  {MissingItem,
   Item(id, "B", <<Str("x"), Str("")>>, [t |-> "number", v |-> 150], Null),
   Item(id, Null, <<>>, [t |-> "undefined", v |-> 0], "paywall"),
   Item(id, "A", <<NonString>>, [t |-> "nan", v |-> 0], Null)}

RECURSIVE ItemResponses(_, _, _)
\* the responses [data, cost] to a batch from its k-th bookmark on, with at most
\* left items that depart from the nominal one
ItemResponses(batch, k, left) ==
  IF k > Len(batch) THEN {[data |-> [b \in StoredIds |-> MissingItem], cost |-> 0]}
  ELSE LET id == batch[k].id
       IN {[data |-> [f.data EXCEPT ![id] = NominalItem(id)], cost |-> f.cost] :
             f \in ItemResponses(batch, k + 1, left)}
          \cup
          (IF left = 0 THEN {}
           ELSE {[data |-> [f.data EXCEPT ![id] = x], cost |-> f.cost + 1] :
                   f \in ItemResponses(batch, k + 1, left - 1), x \in OddItems(id)})

CategorizeOutcomes(batch, left) ==
  {[outcome |-> OkOutcome(f.data, Usage), cost |-> f.cost] :
     f \in ItemResponses(batch, 1, left)}
  \cup (IF left = 0 THEN {}
        ELSE {[outcome |-> ThrowOutcome, cost |-> 1],
              [outcome |-> MalformedOutcome(Usage), cost |-> 1]})

OddSummaries == {MissingSummary, RawSummary(5), RawSummary(500)}

RECURSIVE SummaryResponses(_, _, _)
SummaryResponses(batch, k, left) ==
  IF k > Len(batch) THEN {[data |-> [b \in StoredIds |-> MissingSummary], cost |-> 0]}
  ELSE LET id == batch[k].id
       IN {[data |-> [f.data EXCEPT ![id] = NominalSummary], cost |-> f.cost] :
             f \in SummaryResponses(batch, k + 1, left)}
          \cup
          (IF left = 0 THEN {}
           ELSE {[data |-> [f.data EXCEPT ![id] = x], cost |-> f.cost + 1] :
                   f \in SummaryResponses(batch, k + 1, left - 1), x \in OddSummaries})

SummarizeOutcomes(batch, left) ==
  {[outcome |-> OkOutcome(f.data, Usage), cost |-> f.cost] :
     f \in SummaryResponses(batch, 1, left)}
  \cup (IF left = 0 THEN {}
        ELSE {[outcome |-> ThrowOutcome, cost |-> 1],
              [outcome |-> MalformedOutcome(Usage), cost |-> 1]})

\* ================================================================== actions
DbKinds == {"read", "insert", "upsert", "progress", "complete", "fail"}

\* whether the repository call rejects
FaultChoices(op, left) ==
  IF op.kind \in DbKinds /\ left > 0 THEN {FALSE, TRUE} ELSE {FALSE}

\* the effect of the call a step ends with; a call that rejects changes nothing
ApplyOp(runId, op, fault) ==
  /\ runs' = IF fault THEN runs
             ELSE IF op.kind = "progress" THEN updateRunProgress(runs, op.id, op.counters)
             ELSE IF op.kind = "complete" THEN completeRun(runs, op.id, op.counters)
             ELSE IF op.kind = "fail" THEN failRun(runs, op.id, op.counters, op.message)
             ELSE runs
  /\ triage' = IF ~fault /\ op.kind = "upsert"
               THEN upsertBookmarkTriages(triage, op.rows) ELSE triage
  /\ posts' = IF op.kind = "post" THEN [posts EXCEPT ![runId][op.step] = @ + 1]
              ELSE posts

\* a step of executeRun(runId, ...) takes place; cost is what the answer it
\* resumed with took from the budget
Commit(runId, step, cost) ==
  \E fault \in FaultChoices(step.op, budget - cost) :
    /\ activeStatus' = step.s
    /\ pipe' = [pipe EXCEPT ![runId] = [step.p EXCEPT !.rejected = fault]]
    /\ ApplyOp(runId, step.op, fault)
    /\ budget' = budget - cost - (IF fault THEN 1 ELSE 0)

Env == <<bookmarks, web, apiKey>>

\* the step of executeRun(r) that resumes at position pc
ResumeAt(r, pc, outcome, cost) ==
  /\ pipe[r].pc = pc
  /\ \E step \in {executeRunResume(r, activeStatus, pipe[r], outcome)} :
       Commit(r, step, cost)
  /\ view' = NoView
  /\ UNCHANGED <<Env, call, imports>>

\* ---- startRun
NoReturn == [runId |-> 0, alreadyRunning |-> FALSE]
IdleCall ==
  [pc |-> "idle", ignoreCache |-> FALSE, bookmarks |-> <<>>, rejected |-> FALSE,
   prev |-> [runId |-> 0, status |-> Null], result |-> NoReturn]

\* SELECT ... FROM bookmarks ORDER BY created_at ASC (ids are in creation order)
listBookmarksForTriage == [b \in StoredIds |-> bookmarks[b]]

\* Defective variant, to compare the properties against: startRun whose guard
\* also holds back a call made after a run that failed
StartRunCallAfterFailure(c, ignoreCache) ==
  /\ call[c].pc = "idle"
  /\ \A d \in CallIds : d < c => call[d].pc # "idle"
  /\ IF activeStatus.status \in {"running", "failed"}
     THEN /\ call' = [call EXCEPT ![c].pc = "returned",
                                  ![c].ignoreCache = ignoreCache,
                                  ![c].result = [runId |-> activeStatus.runId,
                                                 alreadyRunning |-> TRUE]]
          /\ UNCHANGED budget
     ELSE \E fault \in FaultChoices(ReadOp, budget) :
            /\ call' = [call EXCEPT ![c].pc = "await_list",
                                    ![c].ignoreCache = ignoreCache,
                                    ![c].rejected = fault,
                                    ![c].prev = [runId |-> activeStatus.runId,
                                                 status |-> activeStatus.status],
                                    ![c].bookmarks = IF fault THEN <<>>
                                                     ELSE listBookmarksForTriage]
            /\ budget' = budget - (IF fault THEN 1 ELSE 0)
  /\ view' = NoView
  /\ UNCHANGED <<Env, triage, runs, activeStatus, pipe, posts, imports>>

\* Defective variant, to compare the properties against: startRun without its
\* guard on the run in memory
StartRunCallUnguarded(c, ignoreCache) ==
  /\ call[c].pc = "idle"
  /\ \A d \in CallIds : d < c => call[d].pc # "idle"
  /\ \E fault \in FaultChoices(ReadOp, budget) :
       /\ call' = [call EXCEPT ![c].pc = "await_list",
                               ![c].ignoreCache = ignoreCache,
                               ![c].rejected = fault,
                               ![c].prev = [runId |-> activeStatus.runId,
                                            status |-> activeStatus.status],
                               ![c].bookmarks = IF fault THEN <<>>
                                                ELSE listBookmarksForTriage]
       /\ budget' = budget - (IF fault THEN 1 ELSE 0)
  /\ view' = NoView
  /\ UNCHANGED <<Env, triage, runs, activeStatus, pipe, posts, imports>>

\* a call of startRun, to its return (already running) or to its first await
StartRunCall(c, ignoreCache) ==
  /\ call[c].pc = "idle"
  /\ \A d \in CallIds : d < c => call[d].pc # "idle"
  /\ IF activeStatus.status = "running"
     THEN /\ call' = [call EXCEPT ![c].pc = "returned",
                                  ![c].ignoreCache = ignoreCache,
                                  ![c].result = [runId |-> activeStatus.runId,
                                                 alreadyRunning |-> TRUE]]
          /\ UNCHANGED budget
     ELSE \E fault \in FaultChoices(ReadOp, budget) :
            /\ call' = [call EXCEPT ![c].pc = "await_list",
                                    ![c].ignoreCache = ignoreCache,
                                    ![c].rejected = fault,
                                    ![c].prev = [runId |-> activeStatus.runId,
                                                 status |-> activeStatus.status],
                                    ![c].bookmarks = IF fault THEN <<>>
                                                     ELSE listBookmarksForTriage]
            /\ budget' = budget - (IF fault THEN 1 ELSE 0)
  /\ view' = NoView
  /\ UNCHANGED <<Env, triage, runs, activeStatus, pipe, posts, imports>>

\* startRun resumes after listBookmarksForTriage: the run id (the call's number
\* stands for the random UUID) and createRun
StartRunCreate(c) ==
  /\ call[c].pc = "await_list"
  /\ IF call[c].rejected
     THEN /\ call' = [call EXCEPT ![c].pc = "threw"]
          /\ UNCHANGED <<runs, budget>>
     ELSE \E fault \in FaultChoices(ReadOp, budget) :
            /\ call' = [call EXCEPT ![c].pc = "await_create", ![c].rejected = fault]
            /\ runs' = IF fault THEN runs
                       ELSE createRun(runs, c, Len(call[c].bookmarks))
            /\ budget' = budget - (IF fault THEN 1 ELSE 0)
  /\ view' = NoView
  /\ UNCHANGED <<Env, triage, activeStatus, pipe, posts, imports>>

\* Defective variant, to compare the properties against: startRun that awaits
\* executeRun instead of leaving it to run on its own
StartRunLaunchAwaited(c) ==
  /\ call[c].pc = "await_create"
  /\ IF call[c].rejected
     THEN /\ call' = [call EXCEPT ![c].pc = "threw"]
          /\ UNCHANGED <<triage, runs, activeStatus, pipe, posts, budget>>
     ELSE /\ call' = [call EXCEPT ![c].pc = "await_run"]
          /\ \E step \in {executeRunStart(c, NewStatus(c, Len(call[c].bookmarks)),
                                            call[c].bookmarks, call[c].ignoreCache)} :
               Commit(c, step, 0)
  /\ view' = NoView
  /\ UNCHANGED <<Env, imports>>

\* startRun resumes after createRun: activeStatus is assigned, executeRun is
\* called and runs to its first await, startRun returns
StartRunLaunch(c) ==
  /\ call[c].pc = "await_create"
  /\ IF call[c].rejected
     THEN /\ call' = [call EXCEPT ![c].pc = "threw"]
          /\ UNCHANGED <<triage, runs, activeStatus, pipe, posts, budget>>
     ELSE /\ call' = [call EXCEPT ![c].pc = "returned",
                                  ![c].result = [runId |-> c, alreadyRunning |-> FALSE]]
          /\ \E step \in {executeRunStart(c, NewStatus(c, Len(call[c].bookmarks)),
                                            call[c].bookmarks, call[c].ignoreCache)} :
               Commit(c, step, 0)
  /\ view' = NoView
  /\ UNCHANGED <<Env, imports>>

\* ---- executeRun
PrepareBookmarks(r) == ResumeAt(r, "await_cache", ThrowOutcome, 0)

RunnerResume(r, i) ==
  /\ pipe[r].pc = "preparing"
  /\ i \in DOMAIN pipe[r].runners
  /\ pipe[r].runners[i].st \in {"fetching", "yield"}
  /\ \E step \in {runnerResume(activeStatus, pipe[r], i)} : Commit(r, step, 0)
  /\ view' = NoView
  /\ UNCHANGED <<Env, call, imports>>

Partition(r) ==
  /\ \A i \in DOMAIN pipe[r].runners : pipe[r].runners[i].st = "finished"
  /\ ResumeAt(r, "preparing", ThrowOutcome, 0)

PersistCacheProgress(r) == ResumeAt(r, "await_upsertCache", ThrowOutcome, 0)

DiscoverSend(r) == ResumeAt(r, "await_persist1", ThrowOutcome, 0)

DiscoverReceive(r) ==
  /\ ~pipe[r].hung
  /\ \E o \in DiscoverOutcomes :
       /\ o.cost <= budget
       /\ ResumeAt(r, "await_discover", o.outcome, o.cost)

CategorizeReceive(r) ==
  /\ pipe[r].pc = "await_categorize"
  /\ ~pipe[r].hung
  /\ \E o \in CategorizeOutcomes(CategoryBatches(pipe[r])[pipe[r].catIdx], budget) :
       ResumeAt(r, "await_categorize", o.outcome, o.cost)

CategorizeContinue(r) == ResumeAt(r, "await_persistCat", ThrowOutcome, 0)

SummarizeReceive(r) ==
  /\ pipe[r].pc = "await_summarize"
  /\ ~pipe[r].hung
  /\ \E o \in SummarizeOutcomes(SummaryBatches(pipe[r])[pipe[r].sumIdx], budget) :
       ResumeAt(r, "await_summarize", o.outcome, o.cost)

SummarizeContinue(r) == ResumeAt(r, "await_persistSum", ThrowOutcome, 0)

PersistFinalProgress(r) == ResumeAt(r, "await_upsertRows", ThrowOutcome, 0)

CompleteRun(r) == ResumeAt(r, "await_persist2", ThrowOutcome, 0)

Completed(r) == ResumeAt(r, "await_complete", ThrowOutcome, 0)

FailRunResume(r) == ResumeAt(r, "await_failRun", ThrowOutcome, 0)

\* ---- getRuntimeStatus
\* A call of getRuntimeStatus.  What it returns is fixed when it is called: the
\* status in memory, or what getLatestRun read before the await.
GetRuntimeStatus ==
  /\ IF activeStatus.status # Null
     THEN /\ view' = [called |-> TRUE, threw |-> FALSE,
                      result |-> getRuntimeStatus(activeStatus, runs, -1)]
          /\ UNCHANGED budget
     ELSE \E fault \in FaultChoices(ReadOp, budget) :
            /\ budget' = budget - (IF fault THEN 1 ELSE 0)
            /\ IF fault
               THEN view' = [called |-> TRUE, threw |-> TRUE, result |-> NullStatus]
               ELSE \E latest \in IF getLatestRun(runs) = {} THEN {-1}
                                   ELSE getLatestRun(runs) :
                      view' = [called |-> TRUE, threw |-> FALSE,
                               result |-> getRuntimeStatus(activeStatus, runs, latest)]
  /\ UNCHANGED <<Env, triage, runs, activeStatus, call, pipe, posts, imports>>

\* ---- importBookmarks
\* a row of table bookmarks
BookmarkRow(b, url, status) ==
  [id |-> b, url |-> url, title |-> "t1", folderPath |-> Null, status |-> status,
   finalUrl |-> NullUrl]

\* A file is taken as the bookmarks parseBookmarksFromHtml finds in it.
ParsedBookmark(url) == [url |-> url, title |-> "t1"]
Files ==
  UNION {[1..n -> {ParsedBookmark(HttpUrl(h)) : h \in BookmarkIds}] : n \in 0..MaxFileLen}

NoResponse ==
  [total |-> 0, imported |-> 0, duplicates |-> 0, live |-> 0, redirected |-> 0,
   dead |-> 0]
IdleImport ==
  [pc |-> "idle", rejected |-> FALSE, parsed |-> <<>>, inserted |-> <<>>,
   duplicates |-> 0, queue |-> <<>>, running |-> {}, updates |-> <<>>,
   live |-> 0, redirected |-> 0, dead |-> 0, response |-> NoResponse]

\* Defective variant, to compare the properties against: upsertBookmarks
\* without the SELECT that looks for the url
upsertOneNoLookup(acc, bookmark) ==
  LET row == BookmarkRow(Len(acc.tbl) + 1, bookmark.url, Null)
  IN [acc EXCEPT !.tbl = Append(@, row), !.inserted = Append(@, row)]

\* the body of the loop of upsertBookmarks: a url that is stored already counts
\* as a duplicate, another one is inserted under a new id, not validated yet
upsertOne(acc, bookmark) ==
  IF \E b \in DOMAIN acc.tbl : acc.tbl[b].url = bookmark.url
  THEN [acc EXCEPT !.duplicates = @ + 1]
  ELSE LET row == BookmarkRow(Len(acc.tbl) + 1, bookmark.url, Null)
       IN [acc EXCEPT !.tbl = Append(@, row), !.inserted = Append(@, row)]

RECURSIVE upsertBookmarks(_, _, _)
\* the transaction of upsertBookmarks from the k-th parsed bookmark on
upsertBookmarks(parsed, k, acc) ==
  IF k > Len(parsed) THEN acc
  ELSE upsertBookmarks(parsed, k + 1, upsertOne(acc, parsed[k]))

\* UPDATE bookmarks SET url_status = ... WHERE id = ?, one update after the other
RECURSIVE updateValidations(_, _)
updateValidations(tbl, updates) ==
  IF updates = <<>> THEN tbl
  ELSE updateValidations(
         [tbl EXCEPT ![Head(updates).bookmarkId].status = Head(updates).status],
         Tail(updates))

\* a runner of runWithConcurrency takes the next inserted bookmark, if any, and
\* calls validateUrl
RECURSIVE StartValidations(_, _)
StartValidations(m, n) ==
  IF n = 0 \/ m.queue = <<>> THEN m
  ELSE StartValidations([m EXCEPT !.queue = Tail(@),
                                  !.running = @ \cup {Head(m.queue).id}], n - 1)

\* a call of importBookmarks, to its await of upsertBookmarks
ImportCall(i, file) ==
  /\ imports[i].pc = "idle"
  /\ \A j \in CallIds : j < i => imports[j].pc # "idle"
  /\ \E fault \in FaultChoices(UpsertOp(file), budget) :
       LET done == upsertBookmarks(file, 1,
                     [tbl |-> bookmarks, inserted |-> <<>>, duplicates |-> 0])
       IN /\ budget' = budget - (IF fault THEN 1 ELSE 0)
          /\ bookmarks' = IF fault THEN bookmarks ELSE done.tbl
          /\ imports' = [imports EXCEPT ![i] =
                           [imports[i] EXCEPT !.pc = "await_upsert", !.rejected = fault,
                                     !.parsed = file,
                                     !.inserted = IF fault THEN <<>> ELSE done.inserted,
                                     !.duplicates = IF fault THEN 0 ELSE done.duplicates]]
  /\ view' = NoView
  /\ UNCHANGED <<web, apiKey, triage, runs, activeStatus, call, pipe, posts>>

\* importBookmarks resumes after upsertBookmarks: the runners of
\* runWithConcurrency start
ImportValidate(i) ==
  /\ imports[i].pc = "await_upsert"
  /\ imports' = [imports EXCEPT ![i] =
                   IF imports[i].rejected THEN [imports[i] EXCEPT !.pc = "threw"]
                   ELSE StartValidations(
                          [imports[i] EXCEPT !.pc = "validating",
                                             !.queue = imports[i].inserted],
                          VALIDATE_CONCURRENCY)]
  /\ view' = NoView
  /\ UNCHANGED <<Env, triage, runs, activeStatus, call, pipe, posts, budget>>

\* validateUrl returns for bookmark b: the worker counts the status, its runner
\* takes the next bookmark
ValidationReturns(i, b, status) ==
  /\ imports[i].pc = "validating"
  /\ b \in imports[i].running
  /\ imports' = [imports EXCEPT ![i] =
                   StartValidations(
                     [imports[i] EXCEPT !.running = @ \ {b},
                               !.updates = Append(@, [bookmarkId |-> b, status |-> status]),
                               !.live = @ + (IF status = "live" THEN 1 ELSE 0),
                               !.redirected = @ + (IF status = "redirected" THEN 1 ELSE 0),
                               !.dead = @ + (IF status = "dead" THEN 1 ELSE 0)], 1)]
  /\ view' = NoView
  /\ UNCHANGED <<Env, triage, runs, activeStatus, call, pipe, posts, budget>>

\* every runner has finished: updateValidations
ImportUpdate(i) ==
  /\ imports[i].pc = "validating"
  /\ imports[i].running = {}
  /\ imports[i].queue = <<>>
  /\ \E fault \in FaultChoices(UpsertOp(imports[i].updates), budget) :
       /\ budget' = budget - (IF fault THEN 1 ELSE 0)
       /\ bookmarks' = IF fault THEN bookmarks
                       ELSE updateValidations(bookmarks, imports[i].updates)
       /\ imports' = [imports EXCEPT ![i].pc = "await_update", ![i].rejected = fault]
  /\ view' = NoView
  /\ UNCHANGED <<web, apiKey, triage, runs, activeStatus, call, pipe, posts>>

\* importBookmarks resumes after updateValidations: saveImportRun
ImportSave(i) ==
  /\ imports[i].pc = "await_update"
  /\ IF imports[i].rejected
     THEN /\ imports' = [imports EXCEPT ![i].pc = "threw"]
          /\ UNCHANGED budget
     ELSE \E fault \in FaultChoices(ProgressOp(i, NoResponse), budget) :
            /\ budget' = budget - (IF fault THEN 1 ELSE 0)
            /\ imports' = [imports EXCEPT ![i].pc = "await_save", ![i].rejected = fault]
  /\ view' = NoView
  /\ UNCHANGED <<Env, triage, runs, activeStatus, call, pipe, posts>>

\* importBookmarks resumes after saveImportRun and returns its response
ImportReturn(i) ==
  /\ imports[i].pc = "await_save"
  /\ imports' = [imports EXCEPT ![i] =
                   IF imports[i].rejected THEN [imports[i] EXCEPT !.pc = "threw"]
                   ELSE [imports[i] EXCEPT
                           !.pc = "returned",
                           !.response = [total |-> Len(imports[i].parsed),
                                         imported |-> Len(imports[i].inserted),
                                         duplicates |-> imports[i].duplicates,
                                         live |-> imports[i].live,
                                         redirected |-> imports[i].redirected,
                                         dead |-> imports[i].dead]]]
  /\ view' = NoView
  /\ UNCHANGED <<Env, triage, runs, activeStatus, call, pipe, posts, budget>>

\* ---- environment
NoCallPending == \A c \in CallIds : call[c].pc \notin {"await_list", "await_create"}
PipelineActive(r) == pipe[r].pc \notin {"none", "done", "escaped"}

\* rows and pages change between runs, while a further run can still be asked for
Quiescent ==
  /\ NoCallPending
  /\ \A r \in CallIds : ~PipelineActive(r)
  /\ \E c \in CallIds : call[c].pc = "idle"

\* somebody edits the title of a bookmark row
EditTitle(b, t) ==
  /\ budget > 0
  /\ Quiescent
  /\ t # bookmarks[b].title
  /\ bookmarks' = [bookmarks EXCEPT ![b].title = t]
  /\ budget' = budget - 1
  /\ view' = NoView
  /\ UNCHANGED <<web, apiKey, triage, runs, activeStatus, call, pipe, posts, imports>>

\* a page changes, or becomes unreachable, or reachable again
WebChange(h, page) ==
  /\ budget > 0
  /\ Quiescent
  /\ page # web[h]
  /\ web' = [web EXCEPT ![h] = page]
  /\ budget' = budget - 1
  /\ view' = NoView
  /\ UNCHANGED <<bookmarks, apiKey, triage, runs, activeStatus, call, pipe, posts, imports>>

\* ---- initial states
LiveBookmark(b) == BookmarkRow(b, HttpUrl(b), "live")
\* the other kinds of rows: dead, and a scheme that is not http(s)
OddBookmarks(b) ==
  {BookmarkRow(b, HttpUrl(b), "dead"),
   BookmarkRow(b, [scheme |-> "ftp", host |-> b], Null)}

\* rows of bookmark_triage left by a run (id 0) of an earlier process
LegacyRows(bookmark) ==
  LET valid == TriageRow(Prepare(bookmark, fetchPageExcerpt(HtmlPage(TextX))), 0,
                         "A", <<"x">>, Summary("model", Null, 40), Null,
                         [t |-> "number", v |-> 73])
  IN {valid,
      [valid EXCEPT !.promptVersion = "triage-v0"],
      [valid EXCEPT !.categoryModel = "gpt-4o-mini"],
      [valid EXCEPT !.summaryModel = "gpt-4o-mini"],
      [valid EXCEPT !.sourceHash = sourceHashOf([bookmark EXCEPT !.title = "t0"], TextX)]}

\* the row of that run, which completed over n bookmarks
LegacyRun(n) ==
  [NoRun EXCEPT !.exists = TRUE, !.status = "completed", !.totalBookmarks = n,
                !.processedCount = n, !.categorizedCount = n, !.apiCalls = 3,
                !.promptTokens = 9, !.completionTokens = 6, !.startedAt = 1]

InitService ==
  /\ activeStatus = NullStatus
  /\ call = [c \in CallIds |-> IdleCall]
  /\ pipe = [c \in CallIds |-> IdlePipe]
  /\ posts = [c \in CallIds |-> [discover |-> 0, categorize |-> 0, summarize |-> 0]]
  /\ view = NoView
  /\ imports = [i \in CallIds |-> IdleImport]

\* the database and the process environment the service starts with
InitWorld(deviations) ==
  /\ web = [h \in BookmarkIds |-> HtmlPage(TextX)]
  /\ \E odd \in SUBSET BookmarkIds, legacy \in SUBSET BookmarkIds, key \in BOOLEAN :
       /\ Cardinality(odd) + Cardinality(legacy) + (IF key THEN 0 ELSE 1) <= deviations
       /\ odd \cap legacy = {}
       /\ bookmarks \in {f \in [BookmarkIds -> UNION {OddBookmarks(b) \cup {LiveBookmark(b)} :
                                                         b \in BookmarkIds}] :
                           \A b \in BookmarkIds :
                             IF b \in odd THEN f[b] \in OddBookmarks(b)
                             ELSE f[b] = LiveBookmark(b)}
       /\ triage \in {f \in [BookmarkIds -> UNION {LegacyRows(bookmarks[b]) \cup {NoRow} :
                                                      b \in BookmarkIds}] :
                        \A b \in BookmarkIds :
                          IF b \in legacy THEN f[b] \in LegacyRows(bookmarks[b])
                          ELSE f[b] = NoRow}
       /\ runs = [r \in RunIds |-> IF r = 0 /\ legacy # {}
                                  THEN LegacyRun(Cardinality(legacy)) ELSE NoRun]
       /\ apiKey = key
       /\ budget = deviations - Cardinality(odd) - Cardinality(legacy)
                   - (IF key THEN 0 ELSE 1)

Init == InitWorld(MaxDeviations) /\ InitService

\* a request POST /triage/runs is handled; requests are handled one at a time
Request(c, ignoreCache) == NoCallPending /\ StartRunCall(c, ignoreCache)

Pipeline(r) ==
  \/ PrepareBookmarks(r)
  \/ \E i \in 1..PREPARE_CONCURRENCY : RunnerResume(r, i)
  \/ Partition(r)
  \/ PersistCacheProgress(r)
  \/ DiscoverSend(r)
  \/ DiscoverReceive(r)
  \/ CategorizeReceive(r)
  \/ CategorizeContinue(r)
  \/ SummarizeReceive(r)
  \/ SummarizeContinue(r)
  \/ PersistFinalProgress(r)
  \/ CompleteRun(r)
  \/ Completed(r)
  \/ FailRunResume(r)

Next ==
  \/ \E c \in CallIds, ignoreCache \in BOOLEAN : Request(c, ignoreCache)
  \/ \E c \in CallIds : StartRunCreate(c)
  \/ \E c \in CallIds : StartRunLaunch(c)
  \/ \E r \in CallIds : Pipeline(r)
  \/ \E b \in BookmarkIds, t \in Titles : EditTitle(b, t)
  \/ \E h \in BookmarkIds, page \in Pages : WebChange(h, page)

Spec == Init /\ [][Next]_vars

\* ---- calls that overlap
\* startRun is an async method of an exported class: a second call can be made
\* while an earlier one is suspended at one of its awaits.  The calls overlap in
\* the nominal scenario: what is explored is the interleaving of their steps.
NextRace ==
  \/ \E c \in CallIds, ignoreCache \in BOOLEAN : StartRunCall(c, ignoreCache)
  \/ \E c \in CallIds : StartRunCreate(c)
  \/ \E c \in CallIds : StartRunLaunch(c)
  \/ \E r \in CallIds : Pipeline(r)

InitRace == InitWorld(0) /\ InitService

SpecRace == InitRace /\ [][NextRace]_vars

\* ---- calls that overlap, with the timing of the event loop
\* The repository is synchronous (better-sqlite3) behind async methods: the
\* continuation of a repository await runs as a microtask, before the event
\* loop delivers any network answer.  A network answer (a fetched page, a
\* response of the categorization service) is therefore received only when no
\* continuation of a repository await is due.
RepoAwaits == {"await_cache", "await_upsertCache", "await_persist1", "await_persistCat",
               "await_persistSum", "await_upsertRows", "await_persist2", "await_complete",
               "await_failRun"}

Settled ==
  /\ \A c \in CallIds : call[c].pc \notin {"await_list", "await_create"}
  /\ \A r \in CallIds :
       /\ pipe[r].pc \notin RepoAwaits
       /\ pipe[r].pc = "preparing" =>
            \A i \in DOMAIN pipe[r].runners : pipe[r].runners[i].st # "yield"

NetworkStep(r) ==
  \/ \E i \in 1..PREPARE_CONCURRENCY : RunnerResume(r, i) /\ pipe[r].runners[i].st = "fetching"
  \/ DiscoverReceive(r)
  \/ CategorizeReceive(r)
  \/ SummarizeReceive(r)

NextSettled ==
  \/ \E c \in CallIds, ignoreCache \in BOOLEAN : StartRunCall(c, ignoreCache)
  \/ \E c \in CallIds : StartRunCreate(c)
  \/ \E c \in CallIds : StartRunLaunch(c)
  \/ \E r \in CallIds : Pipeline(r) /\ (NetworkStep(r) => Settled)

InitSettled == InitWorld(MaxDeviations - 1) /\ InitService

SpecSettled == InitSettled /\ [][NextSettled]_vars

\* ---- a collection of more than one categorization batch
\* One bookmark more than a categorization batch holds.  All but the last are
\* dead links, which are neither fetched nor summarized by the service; the
\* last one is live, so that it is prepared last and makes the second batch.
BatchIds == 1..(CATEGORY_BATCH_SIZE + 1)

InitBatch ==
  /\ bookmarks = [b \in BatchIds |->
                    IF b = CATEGORY_BATCH_SIZE + 1 THEN LiveBookmark(b)
                    ELSE BookmarkRow(b, HttpUrl(b), "dead")]
  /\ web = [h \in BatchIds |-> HtmlPage(TextX)]
  /\ triage = [b \in BatchIds |-> NoRow]
  /\ runs = [r \in RunIds |-> NoRun]
  /\ apiKey = TRUE
  /\ budget = MaxDeviations - 1
  /\ InitService

NextBatch ==
  \/ \E c \in CallIds, ignoreCache \in BOOLEAN : Request(c, ignoreCache)
  \/ \E c \in CallIds : StartRunCreate(c)
  \/ \E c \in CallIds : StartRunLaunch(c)
  \/ \E r \in CallIds : Pipeline(r)

SpecBatch == InitBatch /\ [][NextBatch]_vars

\* ---- the status route
\* The service starts over a database that holds no run, or the run of an
\* earlier process: one that completed, one that failed for want of the API
\* key, or one whose process ended while it was running.
LegacyRuns ==
  {NoRun, LegacyRun(NumBookmarks),
   [NoRun EXCEPT !.exists = TRUE, !.status = "failed", !.totalBookmarks = NumBookmarks,
                 !.failedCount = 1, !.errorMessage = "OPENAI_API_KEY is not set",
                 !.startedAt = 1],
   [NoRun EXCEPT !.exists = TRUE, !.status = "running",
                 !.totalBookmarks = NumBookmarks, !.startedAt = 1]}

InitStatus ==
  /\ bookmarks = [b \in BookmarkIds |-> LiveBookmark(b)]
  /\ web = [h \in BookmarkIds |-> HtmlPage(TextX)]
  /\ \E legacy \in LegacyRuns :
       /\ runs = [r \in RunIds |-> IF r = 0 THEN legacy ELSE NoRun]
       /\ triage = [b \in BookmarkIds |->
                      IF legacy.status = "completed"
                      THEN TriageRow(Prepare(bookmarks[b],
                                             fetchPageExcerpt(HtmlPage(TextX))), 0,
                                     "A", <<"x">>, Summary("model", Null, 40), Null,
                                     [t |-> "number", v |-> 73])
                      ELSE NoRow]
  /\ apiKey = TRUE
  /\ budget = MaxDeviations - 1
  /\ InitService

NextStatus ==
  \/ \E c \in CallIds, ignoreCache \in BOOLEAN : Request(c, ignoreCache)
  \/ \E c \in CallIds : StartRunCreate(c)
  \/ \E c \in CallIds : StartRunLaunch(c)
  \/ \E r \in CallIds : Pipeline(r)
  \/ GetRuntimeStatus

SpecStatus == InitStatus /\ [][NextStatus]_vars

\* ---- the import route
\* imports into an empty database; a request can be taken while an earlier
\* import waits for its validations
InitImport ==
  /\ bookmarks = <<>>
  /\ web = [h \in BookmarkIds |-> HtmlPage(TextX)]
  /\ triage = <<>>
  /\ runs = [r \in RunIds |-> NoRun]
  /\ apiKey = TRUE
  /\ budget = MaxDeviations - 1
  /\ InitService

NextImport ==
  \/ \E i \in CallIds, file \in Files : ImportCall(i, file)
  \/ \E i \in CallIds : ImportValidate(i)
  \/ \E i \in CallIds, b \in StoredIds, status \in {"live", "redirected", "dead"} :
       ValidationReturns(i, b, status)
  \/ \E i \in CallIds : ImportUpdate(i)
  \/ \E i \in CallIds : ImportSave(i)
  \/ \E i \in CallIds : ImportReturn(i)

SpecImport == InitImport /\ [][NextImport]_vars

\* ---- a service that does not answer
\* The service takes the request run r has sent and never answers it.
\* callOpenAiJson hands fetch no AbortSignal and sets no timer, so nothing in
\* the program ends the await.
ServiceHangs(r) ==
  /\ pipe[r].pc \in {"await_discover", "await_categorize", "await_summarize"}
  /\ ~pipe[r].hung
  /\ budget > 0
  /\ pipe' = [pipe EXCEPT ![r].hung = TRUE]
  /\ budget' = budget - 1
  /\ view' = NoView
  /\ UNCHANGED <<Env, triage, runs, activeStatus, call, posts, imports>>

\* the nominal database; what departs from the nominal scenario happens in the run
InitLive ==
  /\ bookmarks = [b \in BookmarkIds |-> LiveBookmark(b)]
  /\ web = [h \in BookmarkIds |-> HtmlPage(TextX)]
  /\ triage = [b \in BookmarkIds |-> NoRow]
  /\ runs = [r \in RunIds |-> NoRun]
  /\ apiKey = TRUE
  /\ budget = MaxDeviations - 1
  /\ InitService

NextLive ==
  \/ \E c \in CallIds, ignoreCache \in BOOLEAN : Request(c, ignoreCache)
  \/ \E c \in CallIds : StartRunCreate(c)
  \/ \E c \in CallIds : StartRunLaunch(c)
  \/ \E r \in CallIds : Pipeline(r)
  \/ \E r \in CallIds : ServiceHangs(r)

\* Fairness.  The code after an await runs once the awaited promise is settled.
\* A promise of the repository is settled when it is returned; the promise of a
\* page fetch is settled after 10 seconds at the latest, when the timer of
\* fetchPageExcerpt aborts the request; the promise of a service call is
\* settled when the service answers, and an answer comes unless the call hangs.
SpecLive ==
  /\ InitLive
  /\ [][NextLive]_vars
  /\ \A c \in CallIds :
       /\ WF_vars(StartRunCreate(c))
       /\ WF_vars(StartRunLaunch(c))
       /\ WF_vars(Pipeline(c))

\* ---- the acquisition pool
\* One run over a dead link, which is not fetched, and one fetched bookmark more
\* than the pool has runners; every page is served and nothing fails.  What is
\* explored is the order in which the fetches end.
PoolIds == 1..(PREPARE_CONCURRENCY + 2)

InitPool ==
  /\ bookmarks = [b \in PoolIds |->
                    IF b = 1 THEN BookmarkRow(b, HttpUrl(b), "dead") ELSE LiveBookmark(b)]
  /\ web = [h \in PoolIds |-> HtmlPage(TextX)]
  /\ triage = [b \in PoolIds |-> NoRow]
  /\ runs = [r \in RunIds |-> NoRun]
  /\ apiKey = TRUE
  /\ budget = 0
  /\ InitService

NextPool ==
  \/ \E ignoreCache \in BOOLEAN : Request(1, ignoreCache)
  \/ \E c \in CallIds : StartRunCreate(c)
  \/ \E c \in CallIds : StartRunLaunch(c)
  \/ \E r \in CallIds : Pipeline(r)

SpecPool == InitPool /\ [][NextPool]_vars

\* ---- a collection of more than one batch of each kind
\* One bookmark more than a categorization batch holds, of which one more than
\* a summarization batch holds are live and the others dead links.  The pages
\* answer in the order they were asked for: what is explored is what the
\* service and the repository answer to the batches.
ChainIds == 1..(CATEGORY_BATCH_SIZE + 1)

\* runner i of run r is the one to resume: a runner whose worker had nothing to
\* await goes on before any fetch ends, else the oldest fetch ends first
InTurn(r, i) ==
  LET rs == pipe[r].runners
  IN \/ rs[i].st = "yield"
     \/ /\ rs[i].st = "fetching"
        /\ \A j \in DOMAIN rs :
             /\ rs[j].st # "yield"
             /\ rs[j].st = "fetching" => rs[i].item.id <= rs[j].item.id

InitChain ==
  /\ bookmarks = [b \in ChainIds |->
                    IF b <= SUMMARY_BATCH_SIZE + 1 THEN LiveBookmark(b)
                    ELSE BookmarkRow(b, HttpUrl(b), "dead")]
  /\ web = [h \in ChainIds |-> HtmlPage(TextX)]
  /\ triage = [b \in ChainIds |-> NoRow]
  /\ runs = [r \in RunIds |-> NoRun]
  /\ apiKey = TRUE
  /\ budget = MaxDeviations - 1
  /\ InitService

NextChain ==
  \/ \E ignoreCache \in BOOLEAN : Request(1, ignoreCache)
  \/ \E c \in CallIds : StartRunCreate(c)
  \/ \E c \in CallIds : StartRunLaunch(c)
  \/ \E r \in CallIds :
       /\ Pipeline(r)
       /\ \A i \in DOMAIN pipe[r].runners :
            pipe'[r].runners[i] # pipe[r].runners[i] => InTurn(r, i)

SpecChain == InitChain /\ [][NextChain]_vars

\* ---- the kinds of sources
\* One run over one bookmark of any shape the table can hold: any link-health
\* status, an address with or without an http(s) scheme, and no final address
\* or one on another host, with or without an http(s) scheme.  The two hosts
\* serve different texts, so that the excerpt tells which one was fetched.
SourceStatuses == {"live", "redirected", "dead", Null}
SourceUrls == {HttpUrl(1), [scheme |-> "http", host |-> 1], [scheme |-> "ftp", host |-> 1]}
FinalUrls == {NullUrl, HttpUrl(2), [scheme |-> "ftp", host |-> 2]}

InitSource ==
  /\ \E url \in SourceUrls, status \in SourceStatuses, finalUrl \in FinalUrls :
       bookmarks = [b \in {1} |-> [BookmarkRow(b, url, status) EXCEPT !.finalUrl = finalUrl]]
  /\ web = [h \in 1..2 |-> IF h = 1 THEN HtmlPage(TextX) ELSE HtmlPage(TextZ)]
  /\ triage = [b \in {1} |-> NoRow]
  /\ runs = [r \in RunIds |-> NoRun]
  /\ apiKey = TRUE
  /\ budget = 0
  /\ InitService

NextSource ==
  \/ \E ignoreCache \in BOOLEAN : Request(1, ignoreCache)
  \/ \E c \in CallIds : StartRunCreate(c)
  \/ \E c \in CallIds : StartRunLaunch(c)
  \/ \E r \in CallIds : Pipeline(r)

SpecSource == InitSource /\ [][NextSource]_vars

\* ---- a second run over the collection of more than one batch of each kind
\* The collection of SpecChain, with a second request: the run it starts finds
\* the rows of the first.
NextRerun ==
  \/ \E c \in 1..2, ignoreCache \in BOOLEAN : Request(c, ignoreCache)
  \/ \E c \in CallIds : StartRunCreate(c)
  \/ \E c \in CallIds : StartRunLaunch(c)
  \/ \E r \in CallIds :
       /\ Pipeline(r)
       /\ \A i \in DOMAIN pipe[r].runners :
            pipe'[r].runners[i] # pipe[r].runners[i] => InTurn(r, i)

SpecRerun == InitChain /\ [][NextRerun]_vars

\* =============================================================== properties
Ids(s) == {s[i].id : i \in 1..Len(s)}
\* the bookmarks run r took from the cache
Hits(r) == {pipe[r].cacheRows[i].bookmarkId : i \in 1..Len(pipe[r].cacheRows)}
PreparedOf(r, b) == CHOOSE x \in Range(pipe[r].prepared) : x.id = b
\* run r is past its cache partition
Partitioned(r) ==
  /\ pipe[r].pc \notin {"none", "await_cache", "preparing"}
  /\ Len(pipe[r].prepared) = Len(pipe[r].bookmarks)
\* startRun returned run r to its caller as a new run
Started(r) == call[r].pc = "returned" /\ ~call[r].result.alreadyRunning
\* run r was started when run q, completed, was the run in memory
Follows(q, r) ==
  /\ call[r].prev = [runId |-> q, status |-> "completed"]
  /\ runs[q].status = "completed"
  /\ pipe[r].pc # "none"

\* C1: at any time at most one run row has status 'running' and at most one
\* executeRun pipeline is active, however the startRun calls interleave.
SingleFlight ==
  /\ Cardinality({r \in CallIds : runs[r].status = "running"}) <= 1
  /\ Cardinality({r \in CallIds : PipelineActive(r)}) <= 1

\* C2: a startRun call made while the run in memory is 'running' returns that
\* run's id with alreadyRunning = TRUE, does not read the bookmarks, and leaves
\* the run rows, the triage rows, the status in memory, the pipelines and the
\* requests sent as they were.
RejectedCallHasNoEffect ==
  [][\A c \in CallIds :
       (call[c].pc = "idle" /\ call'[c].pc # "idle" /\ activeStatus.status = "running")
       => /\ call'[c].pc = "returned"
          /\ call'[c].result = [runId |-> activeStatus.runId, alreadyRunning |-> TRUE]
          /\ call'[c].bookmarks = <<>>
          /\ UNCHANGED <<runs, triage, activeStatus, pipe, posts>>]_vars

RejectedCallReached ==
  \E c \in CallIds :
    /\ call[c].pc = "returned"
    /\ call[c].result.alreadyRunning
    /\ Cardinality({r \in CallIds : runs[r].exists}) = 1

\* C3: a run that startRun returned as new is terminal, in its row and in
\* memory, unless its executeRun is still at work: no error leaves executeRun
\* with the run still 'running'.
StartedRunsFinish ==
  \A r \in CallIds :
    Started(r) =>
      \/ PipelineActive(r)
      \/ /\ runs[r].status \in Terminal
         /\ activeStatus.runId = r => activeStatus.status \in Terminal

\* C4: once a run is terminal, its row does not change again, and neither does
\* its status object in memory.
FinalizedOnce ==
  [][/\ \A r \in CallIds : runs[r].status \in Terminal => runs'[r] = runs[r]
     /\ (activeStatus.status \in Terminal /\ activeStatus'.runId = activeStatus.runId)
        => activeStatus' = activeStatus]_vars

\* C5: a completed run has counted every bookmark of its snapshot exactly once:
\* processed = total, processed = cached + bookmarks processed afresh, and
\* categorized + uncategorized = processed.
CountedOnce ==
  \A r \in CallIds :
    runs[r].status = "completed" =>
      /\ runs[r].processedCount = runs[r].totalBookmarks
      /\ runs[r].processedCount = runs[r].cachedCount + Len(pipe[r].toProcess)
      /\ runs[r].categorizedCount + runs[r].uncategorizedCount = runs[r].processedCount

\* C6: when a run becomes 'completed', every bookmark of its snapshot has a
\* triage row that carries this run's id and the source hash the run computed.
CompletedRunOwnsRows ==
  [][\A r \in CallIds :
       (runs[r].status # "completed" /\ runs'[r].status = "completed")
       => \A k \in 1..Len(pipe[r].bookmarks) :
            LET b == pipe[r].bookmarks[k].id
            IN /\ triage'[b].exists
               /\ triage'[b].triageRunId = r
               /\ triage'[b].sourceHash = PreparedOf(r, b).sourceHash]_vars

\* C7: a triage row that carries a run's id has a category that is null or a
\* member of the taxonomy discoverCategories returned in that run.
CategoryInRunTaxonomy ==
  \A r \in CallIds, b \in BookmarkIds :
    (triage[b].exists /\ triage[b].triageRunId = r /\ pipe[r].categories # <<>>)
    => \/ triage[b].category = Null
       \/ Includes(pipe[r].categories, triage[b].category)

\* C8: in a run past its cache partition, a bookmark is a cache hit if and only
\* if ignoreCache is false, a cached record exists for it, the cached source hash
\* is the hash just computed and the cached category model, summary model and
\* prompt version are the current ones; otherwise it is processed afresh.
CacheHitIffValid ==
  \A r \in CallIds :
    Partitioned(r) =>
      \A k \in 1..Len(pipe[r].prepared) :
        LET bookmark == pipe[r].prepared[k]
            cached == pipe[r].cache[bookmark.id]
            valid == /\ ~pipe[r].ignoreCache
                     /\ cached.exists
                     /\ cached.sourceHash = bookmark.sourceHash
                     /\ cached.categoryModel = CATEGORY_MODEL
                     /\ cached.summaryModel = SUMMARY_MODEL
                     /\ cached.promptVersion = PROMPT_VERSION
        IN /\ bookmark.id \in Hits(r) <=> valid
           /\ bookmark.id \in Ids(pipe[r].toProcess) <=> ~valid

CacheHitAndMissReached ==
  \E r \in CallIds, b1, b2 \in BookmarkIds :
    /\ Partitioned(r)
    /\ b1 \in Hits(r)
    /\ b2 \in Ids(pipe[r].toProcess)
    /\ pipe[r].cache[b2].exists

\* the snapshots of q and r differ in the title of bookmark b and in nothing else
OnlyTitleChanged(q, r, b) ==
  /\ pipe[r].bookmarks[b].title # pipe[q].bookmarks[b].title
  /\ [pipe[r].bookmarks EXCEPT ![b].title = pipe[q].bookmarks[b].title] = pipe[q].bookmarks
SameExcerpts(q, r) ==
  \A x \in BookmarkIds : PreparedOf(r, x).excerpt = PreparedOf(q, x).excerpt
TitleEdited(q, r, b) ==
  /\ Follows(q, r)
  /\ ~pipe[r].ignoreCache
  /\ Partitioned(r)
  /\ OnlyTitleChanged(q, r, b)
  /\ SameExcerpts(q, r)

\* C9: when a run follows a completed run, with ignoreCache false, the title of
\* exactly one bookmark edited in between and every page excerpt as before, it
\* processes afresh exactly that bookmark and counts the others as cached.
TitleEditInvalidatesOne ==
  \A q, r \in CallIds, b \in BookmarkIds :
    TitleEdited(q, r, b) =>
      /\ Ids(pipe[r].toProcess) = {b}
      /\ Hits(r) = BookmarkIds \ {b}
      /\ activeStatus.runId = r =>
           activeStatus.cachedCount = activeStatus.totalBookmarks - 1
      /\ runs[r].status = "completed" =>
           runs[r].cachedCount = runs[r].totalBookmarks - 1

TitleEditReached ==
  \E q, r \in CallIds, b \in BookmarkIds :
    TitleEdited(q, r, b) /\ runs[r].status = "completed"

\* run r, completed, followed completed run q with the same snapshot of the
\* bookmarks and ignoreCache false
RanTwice(q, r) ==
  /\ Follows(q, r)
  /\ ~pipe[r].ignoreCache
  /\ pipe[r].bookmarks = pipe[q].bookmarks
  /\ runs[r].status = "completed"
AllCached(r) ==
  /\ runs[r].cachedCount = runs[r].totalBookmarks
  /\ posts[r].categorize = 0
  /\ posts[r].summarize = 0
SameExcerptHeads(q, r) ==
  \A x \in BookmarkIds :
    Slice1000(PreparedOf(r, x).excerpt) = Slice1000(PreparedOf(q, x).excerpt)

\* C10 as stated: a second run over an unchanged collection, with ignoreCache
\* false, ends with cachedCount = totalBookmarks and sends no categorization and
\* no summarization request.
SecondRunAllCached ==
  \A q, r \in CallIds : RanTwice(q, r) => AllCached(r)

\* C10, amended: the same, provided that the first 1000 characters of the
\* excerpt fetched for every bookmark are the same in both runs.
SecondRunAllCachedSameExcerpts ==
  \A q, r \in CallIds : (RanTwice(q, r) /\ SameExcerptHeads(q, r)) => AllCached(r)

SecondRunSameHeadsReached ==
  \E q, r \in CallIds :
    /\ RanTwice(q, r)
    /\ SameExcerptHeads(q, r)
    /\ ~SameExcerpts(q, r)


\* ---- C11
\* the categorization call run r waits for ends in this step, and it failed:
\* recordUsage, which follows every call that returns, did not run
BatchCallFailed(r) ==
  /\ pipe[r].pc = "await_categorize"
  /\ pipe'[r].pc # "await_categorize"
  /\ activeStatus'.apiCalls = activeStatus.apiCalls

\* C11: when the call of a categorization batch fails, every bookmark of the
\* batch gets category null, no tags and reasonCode "categorization_failed",
\* failedCount grows by the size of the batch, and the run goes on, not to its
\* failure path: it writes its progress and then, unless that write is
\* rejected, sends the next batch if there is one and moves on to the
\* summaries if there is none.
FailedBatchIsContained ==
  [][\A r \in CallIds :
       /\ BatchCallFailed(r) =>
            LET batch == CategoryBatches(pipe[r])[pipe[r].catIdx]
            IN /\ \A k \in 1..Len(batch) :
                    LET result == pipe'[r].results[batch[k].id]
                    IN /\ result.present
                       /\ result.category = Null
                       /\ result.tags = <<>>
                       /\ result.reasonCode = "categorization_failed"
               /\ activeStatus'.failedCount = activeStatus.failedCount + Len(batch)
               /\ pipe'[r].pc = "await_persistCat"
               /\ pipe'[r].err = Null
       /\ (/\ pipe[r].pc = "await_persistCat"
           /\ pipe'[r].pc # "await_persistCat"
           /\ ~pipe[r].rejected) =>
            IF pipe[r].catIdx < Len(CategoryBatches(pipe[r]))
            THEN /\ pipe'[r].pc = "await_categorize"
                 /\ pipe'[r].catIdx = pipe[r].catIdx + 1
                 /\ posts'[r].categorize = posts[r].categorize + 1
            ELSE pipe'[r].pc \in {"await_summarize", "await_upsertRows"}]_vars

\* the call of the first of two batches failed, the second batch was sent and
\* answered, and the run completed
FailedBatchThenCompleted ==
  \E r \in CallIds :
    /\ runs[r].exists
    /\ runs[r].status = "completed"
    /\ posts[r].categorize = 2
    /\ runs[r].apiCalls = 3
    /\ runs[r].failedCount = CATEGORY_BATCH_SIZE
    /\ \A b \in 1..CATEGORY_BATCH_SIZE :
         /\ triage[b].exists
         /\ triage[b].triageRunId = r
         /\ triage[b].category = Null
         /\ triage[b].reasonCode = "categorization_failed"
    /\ triage[CATEGORY_BATCH_SIZE + 1].exists
    /\ triage[CATEGORY_BATCH_SIZE + 1].category = "A"

\* ---- C12
\* C12: category discovery is never fatal: whatever the discovery call ends in
\* (a list, an empty list, a payload without the categories array, a failed
\* call), the run has a taxonomy that is not empty afterwards and goes on to
\* categorization, not to its failure path.
DiscoveryNeverFatal ==
  [][\A r \in CallIds :
       (pipe[r].pc = "await_discover" /\ pipe'[r].pc # "await_discover") =>
         /\ pipe'[r].pc \in {"await_categorize", "await_summarize", "await_upsertRows"}
         /\ pipe'[r].err = Null
         /\ pipe'[r].categories # <<>>
         /\ activeStatus'.stage # "failed"]_vars

\* ---- C13
\* C13: when an error reached the catch of executeRun(r), the run ends failed:
\* the status in memory and the row of the run have status failed (and stage
\* failed in memory), both hold the message of the error, failedCount is one
\* more than it was when the error was caught, and the row has the failedCount
\* of the status in memory.
EscapedErrorFailsRun ==
  [][\A r \in CallIds :
       (pipe[r].pc = "await_failRun" /\ pipe'[r].pc # "await_failRun") =>
         /\ activeStatus'.runId = r
         /\ activeStatus'.status = "failed"
         /\ activeStatus'.stage = "failed"
         /\ activeStatus'.lastError = pipe[r].err
         /\ activeStatus'.failedCount = activeStatus.failedCount + 1
         /\ runs'[r].status = "failed"
         /\ runs'[r].errorMessage = pipe[r].err
         /\ runs'[r].failedCount = activeStatus'.failedCount]_vars

\* ---- C14
\* the calls of the language-model service that run r made and that have ended
EndedCalls(r) ==
  posts[r].discover + posts[r].categorize + posts[r].summarize
  - (IF pipe[r].pc \in {"await_discover", "await_categorize", "await_summarize"}
     THEN 1 ELSE 0)

\* C14: at every point of a run, apiCalls is the number of calls of the service
\* the run has made so far, those that failed included, and promptTokens and
\* completionTokens are the sums of what those calls reported.
ApiCallsCountEveryCall ==
  \A r \in CallIds :
    (activeStatus.status # Null /\ activeStatus.runId = r) =>
      /\ activeStatus.apiCalls = EndedCalls(r)
      /\ activeStatus.promptTokens = Usage.promptTokens * activeStatus.apiCalls
      /\ activeStatus.completionTokens = Usage.completionTokens * activeStatus.apiCalls

\* ---- C15
\* run r processes bookmark b afresh and b is a dead link
FreshDead(r, b) ==
  /\ Partitioned(r)
  /\ b \in Ids(pipe[r].toProcess)
  /\ PreparedOf(r, b).sourceType = "dead"

\* C15: a dead bookmark that a run processes afresh is in no summarization
\* batch of that run, and the summary the run stores for it is the dead
\* template of localFallbackSummary, built from the title the run read.
DeadSummarizedLocally ==
  \A r \in CallIds, b \in StoredIds :
    FreshDead(r, b) =>
      /\ b \notin Ids(pipe[r].pending)
      /\ (Ids(pipe[r].toProcess) = {b} => posts[r].summarize = 0)
      /\ (triage[b].exists /\ triage[b].triageRunId = r) =>
           triage[b].summary = Summary("fallback_dead", PreparedOf(r, b).title, 0)

\* a run has stored the row of a dead bookmark it processed afresh, next to
\* one it sent to the service
DeadRowStored ==
  \E r \in CallIds, b \in StoredIds :
    /\ FreshDead(r, b)
    /\ runs[r].status = "completed"
    /\ triage[b].exists
    /\ triage[b].triageRunId = r
    /\ posts[r].summarize > 0

\* ---- C16
\* C16: a run sends no categorization request before its discovery step has
\* returned the taxonomy, and no summarization request before every
\* categorization batch has been sent and has ended; the payload of a
\* summarization request holds, for each bookmark of its batch, the category
\* and the tags that categorization assigned to it in this run.
StagesInOrder ==
  \A r \in CallIds :
    /\ posts[r].categorize > 0 =>
         /\ posts[r].discover = 1
         /\ pipe[r].pc # "await_discover"
         /\ pipe[r].categories # <<>>
    /\ posts[r].summarize > 0 =>
         /\ posts[r].categorize = Len(CategoryBatches(pipe[r]))
         /\ pipe[r].pc # "await_categorize"
         /\ pipe[r].catIdx > Len(CategoryBatches(pipe[r]))
         /\ \A b \in Ids(pipe[r].toProcess) : pipe[r].results[b].present
    /\ pipe[r].pc = "await_summarize" =>
         LET batch == SummaryBatches(pipe[r])[pipe[r].sumIdx]
         IN /\ Len(pipe[r].sent) = Len(batch)
            /\ \A k \in 1..Len(batch) :
                 /\ pipe[r].sent[k].id = batch[k].id
                 /\ pipe[r].sent[k].category = pipe[r].results[batch[k].id].category
                 /\ pipe[r].sent[k].tags = pipe[r].results[batch[k].id].tags

\* a summarization request is under way whose payload holds an assigned
\* category and its tags
SummaryRequestWithCategory ==
  \E r \in CallIds :
    /\ pipe[r].pc = "await_summarize"
    /\ posts[r].categorize > 0
    /\ pipe[r].sent # <<>>
    /\ pipe[r].sent[1].category = "A"
    /\ pipe[r].sent[1].tags # <<>>

\* ---- C17
\* C17: getRuntimeStatus returns the status in memory when there is one; with
\* none it returns null when the table of runs is empty, and else a view of
\* the latest row: its id and status, stage completed for status completed,
\* failed for failed and idle for any other status, the counters of the row
\* as they are and its error message as lastError.
RuntimeStatusView ==
  [][(view'.called /\ ~view'.threw) =>
       LET v == view'.result
       IN IF activeStatus.status # Null THEN v = activeStatus
          ELSE IF \A r \in RunIds : ~runs[r].exists THEN v.status = Null
          ELSE \E r \in RunIds :
                 /\ runs[r].exists
                 /\ \A q \in RunIds : runs[q].exists => runs[q].startedAt <= runs[r].startedAt
                 /\ v.runId = r
                 /\ v.status = runs[r].status
                 /\ v.stage = (CASE runs[r].status = "completed" -> "completed"
                                 [] runs[r].status = "failed" -> "failed"
                                 [] OTHER -> "idle")
                 /\ v.totalBookmarks = runs[r].totalBookmarks
                 /\ v.processedCount = runs[r].processedCount
                 /\ v.cachedCount = runs[r].cachedCount
                 /\ v.categorizedCount = runs[r].categorizedCount
                 /\ v.uncategorizedCount = runs[r].uncategorizedCount
                 /\ v.failedCount = runs[r].failedCount
                 /\ v.apiCalls = runs[r].apiCalls
                 /\ v.promptTokens = runs[r].promptTokens
                 /\ v.completionTokens = runs[r].completionTokens
                 /\ v.lastError = runs[r].errorMessage]_vars

\* getRuntimeStatus was called with no status in memory and returned the view
\* of a row that failed
FailedRowViewed ==
  /\ view.called
  /\ ~view.threw
  /\ activeStatus.status = Null
  /\ view.result.status = "failed"
  /\ view.result.stage = "failed"
  /\ view.result.failedCount = 1

ImportsDedupeAndCount ==
  /\ \A a, b \in StoredIds : a # b => bookmarks[a].url # bookmarks[b].url
  /\ \A i \in CallIds :
       imports[i].pc = "returned" =>
         LET response == imports[i].response
         IN /\ response.total = Len(imports[i].parsed)
            /\ response.total = response.imported + response.duplicates
            /\ response.live + response.redirected + response.dead = response.imported

\* two imports have returned, each of which both stored a url and met one that
\* was stored already: within its own file or from the other import
DuplicatesWithinAndAcross ==
  \E i, j \in CallIds :
    /\ i # j
    /\ imports[i].pc = "returned"
    /\ imports[j].pc = "returned"
    /\ imports[i].response.imported = 1
    /\ imports[i].response.duplicates >= 1
    /\ imports[i].parsed[1].url = imports[i].parsed[2].url
    /\ imports[j].response.imported = 1
    /\ imports[j].response.duplicates >= 1

\* ---- C20
CounterNames ==
  {"processedCount", "cachedCount", "categorizedCount", "uncategorizedCount",
   "failedCount", "apiCalls", "promptTokens", "completionTokens"}

\* C20: from one step of a run to the next, none of processedCount,
\* cachedCount, categorizedCount, uncategorizedCount, failedCount, apiCalls,
\* promptTokens and completionTokens of the run's status in memory decreases,
\* and none of them decreases in the row of the run either, whichever of
\* updateRunProgress, completeRun and failRun writes it.
CountersNeverDecrease ==
  [][/\ (activeStatus.status # Null /\ activeStatus'.runId = activeStatus.runId) =>
          \A f \in CounterNames : activeStatus[f] <= activeStatus'[f]
     /\ \A r \in CallIds :
          runs[r].exists =>
            /\ runs'[r].exists
            /\ \A f \in CounterNames : runs[r][f] <= runs'[r][f]]_vars

\* a run failed at the top level after its row had been written with counters
\* that are not zero
FailedAfterProgress ==
  \E r \in CallIds :
    /\ runs[r].status = "failed"
    /\ pipe[r].pc = "done"
    /\ runs[r].processedCount > 0
    /\ runs[r].apiCalls > 0
    /\ runs[r].failedCount > 0

\* ---- C21
\* the categorization call run r waits for returns a response in this step
CategorizeAnswered(r) ==
  /\ pipe[r].pc = "await_categorize"
  /\ pipe'[r].pc # "await_categorize"
  /\ pipe'[r].received.kind = "ok"

\* a tag of the item is not a string: normalizeWhitespace cannot take it
HasOddTag(item) ==
  /\ item.present
  /\ item.tagsIsArray
  /\ \E i \in 1..Len(item.tags) : ~item.tags[i].isString

\* C21: when the response to a categorization batch holds no item for a
\* bookmark of the batch, that bookmark gets category null, no tags, confidence
\* null and reasonCode "missing_model_output", every other bookmark of the batch
\* whose item can be normalized keeps the normalized result of its item, and the
\* run goes on to persist its progress, not to its failure path.
MissingItemFailsAlone ==
  [][\A r \in CallIds :
       CategorizeAnswered(r) =>
         LET batch == CategoryBatches(pipe[r])[pipe[r].catIdx]
             data == pipe'[r].received.data
         IN \A k \in 1..Len(batch) :
              ~data[batch[k].id].present =>
                /\ LET result == pipe'[r].results[batch[k].id]
                   IN /\ result.present
                      /\ result.category = Null
                      /\ result.tags = <<>>
                      /\ result.confidence = NullConfidence
                      /\ result.reasonCode = "missing_model_output"
                /\ \A j \in 1..Len(batch) :
                     LET item == data[batch[j].id]
                     IN (item.present /\ ~HasOddTag(item)) =>
                          pipe'[r].results[batch[j].id] =
                            normalizeCategoryResult(item, pipe[r].categories).value
                /\ pipe'[r].pc = "await_persistCat"
                /\ pipe'[r].err = Null]_vars

\* ---- C22
\* C22: when the response to a categorization batch holds an item that cannot
\* be normalized (a tag that is not a string), only the bookmark of that item
\* gets a failure-marked result (category null and a reason code); every other
\* bookmark of the batch has the normalized result of its item, and
\* processedCount grows by the size of the batch, each bookmark counted once.
MalformedItemFailsAlone ==
  [][\A r \in CallIds :
       CategorizeAnswered(r) =>
         LET batch == CategoryBatches(pipe[r])[pipe[r].catIdx]
             data == pipe'[r].received.data
         IN /\ \A k \in 1..Len(batch) :
                 LET item == data[batch[k].id]
                     result == pipe'[r].results[batch[k].id]
                 IN /\ result.present
                    /\ IF HasOddTag(item)
                       THEN result.category = Null /\ result.reasonCode # Null
                       ELSE result = normalizeCategoryResult(item, pipe[r].categories).value
            /\ activeStatus'.processedCount = activeStatus.processedCount + Len(batch)]_vars

\* ---- C23
\* what the claim says of the result stored for a bookmark, given the item the
\* service supplied for it (none when the response holds no item)
AsSupplied(result, item, categories) ==
  LET supplied == IF item.present THEN item.category ELSE Null
      suppliedReason == IF item.present THEN item.reasonCode ELSE Null
  IN /\ result.category = (IF Truthy(supplied) /\ Includes(categories, supplied)
                           THEN supplied ELSE Null)
     /\ (result.reasonCode = Null) <=> (result.category # Null)
     /\ result.category = Null =>
          result.reasonCode = (IF suppliedReason # Null THEN suppliedReason
                               ELSE "not_enough_signal")

\* C23 as stated: for every bookmark categorized afresh, the category is the
\* one the service supplied if it is in the taxonomy of the run and null
\* otherwise, reasonCode is null exactly when the category is not null, and with
\* a null category reasonCode is the reason the service supplied, or
\* "not_enough_signal" if it supplied none.
NormalizedAsSupplied ==
  [][\A r \in CallIds :
       CategorizeAnswered(r) =>
         LET batch == CategoryBatches(pipe[r])[pipe[r].catIdx]
             data == pipe'[r].received.data
         IN \A k \in 1..Len(batch) :
              AsSupplied(pipe'[r].results[batch[k].id], data[batch[k].id],
                         pipe[r].categories)]_vars

\* C23, amended: the same for every bookmark whose item is in a response that
\* was processed without error; a bookmark without an item has category null
\* and reasonCode "missing_model_output"; when the call failed, or the response
\* has no items, or one of its items has a tag that is not a string, every
\* bookmark of the batch has category null and reasonCode
\* "categorization_failed".  In all cases reasonCode is null exactly when the
\* category is not null.
NormalizedOrMarked ==
  [][\A r \in CallIds :
       (pipe[r].pc = "await_categorize" /\ pipe'[r].pc # "await_categorize") =>
         LET batch == CategoryBatches(pipe[r])[pipe[r].catIdx]
             received == pipe'[r].received
             degraded == \/ received.kind # "ok"
                         \/ \E k \in 1..Len(batch) : HasOddTag(received.data[batch[k].id])
         IN \A k \in 1..Len(batch) :
              LET result == pipe'[r].results[batch[k].id]
              IN /\ result.present
                 /\ (result.reasonCode = Null) <=> (result.category # Null)
                 /\ IF degraded
                    THEN /\ result.category = Null
                         /\ result.reasonCode = "categorization_failed"
                    ELSE IF ~received.data[batch[k].id].present
                    THEN /\ result.category = Null
                         /\ result.reasonCode = "missing_model_output"
                    ELSE AsSupplied(result, received.data[batch[k].id],
                                    pipe[r].categories)]_vars

\* a response was processed in which the service supplied a category that is
\* not in the taxonomy of the run, and no reason: the bookmark has category null
\* and reasonCode "not_enough_signal"
ForeignCategoryRejected ==
  \E r \in CallIds, b \in StoredIds :
    /\ pipe[r].pc = "await_persistCat"
    /\ pipe[r].received.kind = "ok"
    /\ pipe[r].received.data[b].present
    /\ pipe[r].received.data[b].category = "B"
    /\ ~Includes(pipe[r].categories, "B")
    /\ pipe[r].results[b].present
    /\ pipe[r].results[b].category = Null
    /\ pipe[r].results[b].reasonCode = "not_enough_signal"

\* ---- C24
\* C24: no await of a run lasts for ever: when a call of the language-model
\* service that run r waits for is never answered, the call is given up and
\* the run still ends completed or failed.
HungCallAbandoned ==
  \A r \in CallIds : pipe[r].hung ~> (runs[r].status \in Terminal)

\* ---- C25
\* the bookmarks whose page run r is fetching
InFlight(r) ==
  {pipe[r].runners[i].item.id :
     i \in {j \in DOMAIN pipe[r].runners : pipe[r].runners[j].st = "fetching"}}
\* run r is past prepareBookmarks and has met no error
Prepared(r) ==
  /\ pipe[r].pc \notin {"none", "await_cache", "preparing"}
  /\ pipe[r].err = Null

\* C25: in whatever order the fetches end, at most PREPARE_CONCURRENCY pages
\* are being fetched at a time, no bookmark is taken by two runners or prepared
\* twice, none is lost on the way, and when prepareBookmarks has returned the
\* prepared list holds exactly one PreparedBookmark for every bookmark of the
\* snapshot.
PoolPreparesEachOnce ==
  \A r \in CallIds :
    /\ Cardinality({i \in DOMAIN pipe[r].runners :
                      pipe[r].runners[i].st = "fetching"}) <= PREPARE_CONCURRENCY
    /\ Cardinality(Ids(pipe[r].prepared)) = Len(pipe[r].prepared)
    /\ pipe[r].pc = "preparing" =>
         /\ Cardinality(InFlight(r)) =
              Cardinality({i \in DOMAIN pipe[r].runners :
                             pipe[r].runners[i].st = "fetching"})
         /\ Ids(pipe[r].prepared) \cap InFlight(r) = {}
         /\ Ids(pipe[r].prepared) \cap Ids(pipe[r].queue) = {}
         /\ InFlight(r) \cap Ids(pipe[r].queue) = {}
         /\ Ids(pipe[r].prepared) \cup InFlight(r) \cup Ids(pipe[r].queue)
              = Ids(pipe[r].bookmarks)
    /\ Prepared(r) =>
         /\ Len(pipe[r].prepared) = Len(pipe[r].bookmarks)
         /\ Ids(pipe[r].prepared) = Ids(pipe[r].bookmarks)
         /\ \A k \in 1..Len(pipe[r].prepared) :
              LET bookmark == pipe[r].prepared[k]
              IN \E j \in 1..Len(pipe[r].bookmarks) :
                   bookmark = Prepare(pipe[r].bookmarks[j], bookmark.excerpt)

\* a run completed whose pool was full while a bookmark waited in the queue,
\* and whose fetches did not end in the order of the snapshot
PoolFullAndOutOfOrder ==
  \E r \in CallIds :
    /\ runs[r].status = "completed"
    /\ Len(pipe[r].prepared) = PREPARE_CONCURRENCY + 2
    /\ Len(pipe[r].runners) = PREPARE_CONCURRENCY
    /\ \E k \in 1..(Len(pipe[r].prepared) - 1) :
         pipe[r].prepared[k].id > pipe[r].prepared[k + 1].id
    /\ pipe[r].prepared[PREPARE_CONCURRENCY + 2].id # PREPARE_CONCURRENCY + 2

\* ---- C26
\* runner i of run r waits for a page that ends in a network error or timeout,
\* a non-success status or a content type that is not HTML
FetchFails(r, i) ==
  /\ pipe[r].pc = "preparing"
  /\ i \in DOMAIN pipe[r].runners
  /\ pipe[r].runners[i].st = "fetching"
  /\ web[targetUrlOf(pipe[r].runners[i].item).host].kind # "html"

\* C26: when a runner resumes from a fetch that failed, its bookmark is
\* prepared with the empty excerpt, and nothing else happens: the counters and
\* the stage in memory, the run row and the error of the run are as before and
\* the run goes on preparing.  A run that completes has stored a row for every
\* bookmark it prepared, the ones with a failed fetch included.
FailedFetchOnlyEmptiesExcerpt ==
  [][\A r \in CallIds :
       /\ \A i \in DOMAIN pipe[r].runners :
            (FetchFails(r, i) /\ pipe'[r].runners[i] # pipe[r].runners[i]) =>
              /\ Len(pipe'[r].prepared) > Len(pipe[r].prepared)
              /\ pipe'[r].prepared[Len(pipe[r].prepared) + 1]
                   = Prepare(pipe[r].runners[i].item, EmptyExcerpt)
              /\ activeStatus' = activeStatus
              /\ runs' = runs
              /\ pipe'[r].pc = "preparing"
              /\ pipe'[r].err = Null
       /\ (runs[r].status = "running" /\ runs'[r].status = "completed") =>
            \A k \in 1..Len(pipe[r].prepared) :
              /\ triage'[pipe[r].prepared[k].id].exists
              /\ pipe[r].prepared[k].id \in Hits(r) \cup Ids(pipe[r].toProcess)
    ]_vars

\* a run completed without a failure counted that fetched a page in vain and
\* categorized the bookmark all the same
CompletedDespiteFailedFetch ==
  \E r \in CallIds :
    /\ runs[r].status = "completed"
    /\ runs[r].failedCount = 0
    /\ \E k \in 1..Len(pipe[r].prepared) :
         /\ pipe[r].prepared[k].sourceType \in {"live", "redirected"}
         /\ pipe[r].prepared[k].excerpt = EmptyExcerpt
         /\ web[pipe[r].prepared[k].targetUrl.host].kind # "html"
         /\ pipe[r].prepared[k].id \in Ids(pipe[r].toProcess)
         /\ triage[pipe[r].prepared[k].id].exists

\* ---- C27
\* the positions at which executeRun awaits an answer of the service
CallPositions == {"await_discover", "await_categorize", "await_summarize"}
BatchPosts(r) == posts[r].categorize + posts[r].summarize
SentPosts(r) == posts[r].discover + BatchPosts(r)

\* C27: a run sends its requests to the service one at a time and awaits the
\* answer of each: the discovery request after the first progress write, the
\* first batch request with the answer to the discovery request, and every
\* other batch request from the await of persistProgress that follows the
\* batch before, when that write has succeeded.  The requests sent match the
\* batches taken up.
OneCallAtATime ==
  [][\A r \in CallIds :
       /\ posts'[r] # posts[r] =>
            /\ pipe[r].pc \in {"await_persist1", "await_discover",
                               "await_persistCat", "await_persistSum"}
            /\ pipe[r].pc = "await_persist1" <=> posts'[r].discover # posts[r].discover
            /\ pipe[r].pc = "await_discover" => BatchPosts(r) = 0
            /\ ~pipe[r].rejected
            /\ pipe'[r].pc \in CallPositions
            /\ SentPosts(r)' = SentPosts(r) + 1
            /\ posts'[r].discover >= posts[r].discover
            /\ posts'[r].categorize >= posts[r].categorize
            /\ posts'[r].summarize >= posts[r].summarize
            /\ BatchPosts(r) > 0 =>
                 /\ posts'[r].discover = posts[r].discover
                 /\ pipe[r].pc \in {"await_persistCat", "await_persistSum"}
       /\ pipe'[r].pc = "await_categorize" =>
            posts'[r].categorize = pipe'[r].catIdx
       /\ pipe'[r].pc = "await_summarize" =>
            /\ posts'[r].summarize = pipe'[r].sumIdx
            /\ posts'[r].categorize = Len(CategoryBatches(pipe'[r]))
    ]_vars

\* a run completed that sent two batches of each kind
TwoBatchesOfEachKind ==
  \E r \in CallIds :
    /\ runs[r].status = "completed"
    /\ posts[r] = [discover |-> 1, categorize |-> 2, summarize |-> 2]
    /\ Len(CategoryBatches(pipe[r])) = 2
    /\ Len(SummaryBatches(pipe[r])) = 2

\* ---- C28
\* run r has finished a batch and written its progress, and has not yet had
\* the answer to the next batch
BetweenBatches(r) ==
  \/ pipe[r].pc \in {"await_persistCat", "await_persistSum"} /\ ~pipe[r].rejected
  \/ pipe[r].pc = "await_categorize" /\ pipe[r].catIdx > 1
  \/ pipe[r].pc = "await_summarize"

\* C28: from the progress write that ends a batch until the answer to the next
\* batch, the row of the run holds the counters in memory (processed, cached,
\* categorized, uncategorized, failed, calls and tokens) and is still 'running'.
ProgressPersistedBetweenBatches ==
  \A r \in CallIds :
    BetweenBatches(r) =>
      /\ runs[r].exists
      /\ runs[r].status = "running"
      /\ activeStatus.runId = r
      /\ CountersOf(runs[r]) = CountersOf(activeStatus)

\* ---- C29
\* the summarization call run r waits for ends in this step, and it failed
SummaryCallFailed(r) ==
  /\ pipe[r].pc = "await_summarize"
  /\ pipe'[r].pc # "await_summarize"
  /\ pipe'[r].received.kind = "throw"

\* C29: when the call of a summarization batch fails, every bookmark of the
\* batch gets its local fallback summary and the summaries of the other
\* bookmarks are as before, failedCount grows by the size of the batch,
\* processedCount, cachedCount, categorizedCount and uncategorizedCount are as
\* before, and the run goes on, not to its failure path: it writes its progress
\* and then, unless that write is rejected, sends the next batch if there is one
\* and moves on to the final rows if there is none.
FailedSummaryBatchIsContained ==
  [][\A r \in CallIds :
       /\ SummaryCallFailed(r) =>
            LET batch == SummaryBatches(pipe[r])[pipe[r].sumIdx]
            IN /\ \A k \in 1..Len(batch) :
                    pipe'[r].summaries[batch[k].id] = localFallbackSummary(batch[k])
               /\ \A b \in StoredIds \ Ids(batch) :
                    pipe'[r].summaries[b] = pipe[r].summaries[b]
               /\ activeStatus'.failedCount = activeStatus.failedCount + Len(batch)
               /\ activeStatus'.processedCount = activeStatus.processedCount
               /\ activeStatus'.cachedCount = activeStatus.cachedCount
               /\ activeStatus'.categorizedCount = activeStatus.categorizedCount
               /\ activeStatus'.uncategorizedCount = activeStatus.uncategorizedCount
               /\ activeStatus'.status = "running"
               /\ pipe'[r].pc = "await_persistSum"
               /\ pipe'[r].err = Null
       /\ (/\ pipe[r].pc = "await_persistSum"
           /\ pipe'[r].pc # "await_persistSum"
           /\ ~pipe[r].rejected) =>
            IF pipe[r].sumIdx < Len(SummaryBatches(pipe[r]))
            THEN /\ pipe'[r].pc = "await_summarize"
                 /\ pipe'[r].sumIdx = pipe[r].sumIdx + 1
                 /\ posts'[r].summarize = posts[r].summarize + 1
            ELSE pipe'[r].pc = "await_upsertRows"]_vars

\* the call of the first of two summarization batches failed, the second batch
\* was sent and answered, and the run completed
FailedSummaryBatchThenCompleted ==
  \E r \in CallIds :
    /\ runs[r].exists
    /\ runs[r].status = "completed"
    /\ posts[r].summarize = 2
    /\ runs[r].apiCalls = 4
    /\ runs[r].failedCount = SUMMARY_BATCH_SIZE
    /\ runs[r].processedCount = CATEGORY_BATCH_SIZE + 1
    /\ \A k \in 1..SUMMARY_BATCH_SIZE :
         LET bookmark == pipe[r].pending[k]
         IN /\ triage[bookmark.id].exists
            /\ triage[bookmark.id].summary = localFallbackSummary(bookmark)
            /\ triage[bookmark.id].category = "A"
    /\ triage[pipe[r].pending[SUMMARY_BATCH_SIZE + 1].id].summary.kind = "model"

\* ---- C30
\* executeRun(r) found no API key and has run to its end
EndedWithoutKey(r) ==
  /\ pipe[r].err = "OPENAI_API_KEY is not set"
  /\ pipe[r].pc \in {"done", "escaped"}

\* C30: a run started without the API key ends failed: its row, and the status
\* in memory while it is the status of this run, have status failed, an error
\* message, failedCount 1 and processedCount 0; the run has fetched no page,
\* sent no request to the service and written no triage row.
MissingKeyFailsRun ==
  \A r \in CallIds :
    EndedWithoutKey(r) =>
      /\ runs[r].status = "failed"
      /\ Truthy(runs[r].errorMessage)
      /\ runs[r].failedCount = 1
      /\ runs[r].processedCount = 0
      /\ activeStatus.runId = r =>
           /\ activeStatus.status = "failed"
           /\ Truthy(activeStatus.lastError)
           /\ activeStatus.failedCount = 1
           /\ activeStatus.processedCount = 0
      /\ pipe[r].runners = <<>>
      /\ pipe[r].prepared = <<>>
      /\ posts[r] = [discover |-> 0, categorize |-> 0, summarize |-> 0]
      /\ \A b \in StoredIds : triage[b].exists => triage[b].triageRunId # r

\* ---- C31
\* the bookmarks the step adds to the prepared list of run r
NewlyPrepared(r) ==
  {pipe'[r].prepared[k] : k \in (Len(pipe[r].prepared) + 1)..Len(pipe'[r].prepared)}

\* C31: a page is fetched for a bookmark exactly when its sourceType is 'live'
\* or 'redirected': a runner never waits for the page of a dead or unsupported
\* bookmark, such a bookmark is prepared with the empty excerpt in the step
\* that takes it from the queue, and a live or redirected bookmark is prepared
\* only in the step that ends the fetch of its page, from its targetUrl.
FetchOnlyLiveOrRedirected ==
  [][\A r \in CallIds :
       /\ \A i \in DOMAIN pipe'[r].runners :
            pipe'[r].runners[i].st = "fetching" =>
              resolveSourceType(pipe'[r].runners[i].item) \in {"live", "redirected"}
       /\ pipe'[r].pc = "preparing" =>
            \A bookmark \in NewlyPrepared(r) :
              IF bookmark.sourceType \in {"live", "redirected"}
              THEN /\ pipe[r].pc = "preparing"
                   /\ \E i \in DOMAIN pipe[r].runners :
                        /\ pipe[r].runners[i].st = "fetching"
                        /\ pipe[r].runners[i].item.id = bookmark.id
                        /\ pipe'[r].runners[i] # pipe[r].runners[i]
                   /\ bookmark.excerpt = fetchPageExcerpt(GetPage(bookmark.targetUrl))
              ELSE /\ bookmark.sourceType \in {"dead", "unsupported"}
                   /\ bookmark.excerpt = EmptyExcerpt
                   /\ \A i \in DOMAIN pipe[r].runners :
                        pipe[r].runners[i].st = "fetching" =>
                          pipe[r].runners[i].item.id # bookmark.id
    ]_vars

\* a run completed over a bookmark that was not fetched although its page is
\* there: a dead link, or an address that is not http(s)
UnfetchedDespitePage ==
  \E r \in CallIds :
    /\ runs[r].status = "completed"
    /\ \E k \in 1..Len(pipe[r].prepared) :
         /\ pipe[r].prepared[k].sourceType \in {"dead", "unsupported"}
         /\ pipe[r].prepared[k].excerpt = EmptyExcerpt
         /\ web[pipe[r].prepared[k].url.host].kind = "html"

\* ---- C32
CeilDiv(a, b) == (a + b - 1) \div b
\* the bookmarks to process that are neither dead nor unsupported, in order
SummarizableOf(p) ==
  SelectSeq(p.toProcess, LAMBDA x : x.sourceType \notin {"dead", "unsupported"})
\* the k-th slice of at most size items
Slice(items, k, size) ==
  [j \in 1..(IF k * size <= Len(items) THEN size ELSE Len(items) - (k - 1) * size) |->
     items[(k - 1) * size + j]]
\* executeRun(r) is past prepareBookmarks and the cache partition
PastPreparation(p) ==
  p.pc \in {"await_upsertCache", "await_persist1", "await_discover",
            "await_categorize", "await_persistCat", "await_summarize",
            "await_persistSum", "await_upsertRows", "await_persist2",
            "await_complete"}
  \/ (p.pc \in {"await_failRun", "done", "escaped"} /\ Len(p.prepared) = Len(p.bookmarks)
      /\ p.bookmarks # <<>>)
\* executeRun(r) has returned and the run completed
RanToCompletion(r) == pipe[r].pc = "done" /\ pipe[r].err = Null

\* C32 as it is stated: a run that got past preparation and has ended has sent
\* one discovery request, ceil(n/24) categorization requests and ceil(m/16)
\* summarization requests.
ExactCallsPastPreparation ==
  \A r \in CallIds :
    (PastPreparation(pipe[r]) /\ pipe[r].pc \in {"done", "escaped"}) =>
      /\ posts[r].discover = 1
      /\ posts[r].categorize = CeilDiv(Len(pipe[r].toProcess), CATEGORY_BATCH_SIZE)
      /\ posts[r].summarize =
           CeilDiv(Len(SummarizableOf(pipe[r])), SUMMARY_BATCH_SIZE)

\* C32: a run that completes has sent exactly one discovery request, also when
\* it has nothing to process, ceil(n/24) categorization requests for its n
\* bookmarks to process and ceil(m/16) summarization requests for the m of
\* them that are neither dead nor unsupported; a run that has not completed
\* has sent no more than that.  The k-th categorization request is for the
\* k-th slice of 24 of the bookmarks to process and the k-th summarization
\* request carries the k-th slice of 16 of the m, so that each is in exactly
\* one batch.
CallsMatchBatches ==
  [][\A r \in CallIds :
       LET p == pipe'[r]
           n == Len(p.toProcess)
           m == Len(SummarizableOf(p))
       IN PastPreparation(p) =>
            /\ posts'[r].discover <= 1
            /\ posts'[r].categorize <= CeilDiv(n, CATEGORY_BATCH_SIZE)
            /\ posts'[r].summarize <= CeilDiv(m, SUMMARY_BATCH_SIZE)
            /\ RanToCompletion(r)' =>
                 /\ posts'[r].discover = 1
                 /\ posts'[r].categorize = CeilDiv(n, CATEGORY_BATCH_SIZE)
                 /\ posts'[r].summarize = CeilDiv(m, SUMMARY_BATCH_SIZE)
            /\ posts'[r].categorize > posts[r].categorize =>
                 /\ p.catIdx = posts'[r].categorize
                 /\ CategoryBatches(p)[p.catIdx]
                      = Slice(p.toProcess, p.catIdx, CATEGORY_BATCH_SIZE)
            /\ posts'[r].summarize > posts[r].summarize =>
                 /\ p.sumIdx = posts'[r].summarize
                 /\ [k \in 1..Len(p.sent) |-> p.sent[k].id]
                      = [k \in 1..Len(Slice(SummarizableOf(p), p.sumIdx, SUMMARY_BATCH_SIZE)) |->
                           Slice(SummarizableOf(p), p.sumIdx, SUMMARY_BATCH_SIZE)[k].id]
    ]_vars

\* a run completed that found every bookmark in the cache and sent the
\* discovery request all the same, after a run that sent two batches of each kind
DiscoveryForNothing ==
  \E q, r \in CallIds :
    /\ RanToCompletion(q)
    /\ posts[q] = [discover |-> 1, categorize |-> 2, summarize |-> 2]
    /\ RanToCompletion(r)
    /\ runs[r].status = "completed"
    /\ pipe[r].toProcess = <<>>
    /\ Len(pipe[r].cacheRows) = CATEGORY_BATCH_SIZE + 1
    /\ posts[r] = [discover |-> 1, categorize |-> 0, summarize |-> 0]

\* ---- C33
\* run r processes bookmark b afresh and the scheme of b is not supported
FreshUnsupported(r, b) ==
  /\ Partitioned(r)
  /\ b \in Ids(pipe[r].toProcess)
  /\ PreparedOf(r, b).sourceType = "unsupported"

\* C33: an unsupported bookmark that a run processes afresh is in no
\* summarization batch of that run, and the summary the run stores for it is
\* what localFallbackSummary returns for it.
UnsupportedSummarizedLocally ==
  \A r \in CallIds, b \in StoredIds :
    FreshUnsupported(r, b) =>
      /\ b \notin Ids(pipe[r].pending)
      /\ (Ids(pipe[r].toProcess) = {b} => posts[r].summarize = 0)
      /\ (triage[b].exists /\ triage[b].triageRunId = r) =>
           triage[b].summary = localFallbackSummary(PreparedOf(r, b))

\* ---- C34
\* C34: while a run is the run in memory, processedCount is at most
\* totalBookmarks, cachedCount at most processedCount, and categorizedCount
\* and uncategorizedCount add up to processedCount; the same holds of the row
\* of every run.
CountersConsistent ==
  /\ activeStatus.status # Null =>
       /\ activeStatus.processedCount <= activeStatus.totalBookmarks
       /\ activeStatus.cachedCount <= activeStatus.processedCount
       /\ activeStatus.categorizedCount + activeStatus.uncategorizedCount
            = activeStatus.processedCount
  /\ \A r \in CallIds :
       runs[r].exists =>
         /\ runs[r].processedCount <= runs[r].totalBookmarks
         /\ runs[r].cachedCount <= runs[r].processedCount
         /\ runs[r].categorizedCount + runs[r].uncategorizedCount
              = runs[r].processedCount

\* ---- C35
\* C35: a startRun call made when the run in memory is 'completed' or 'failed'
\* is not answered with that run: it goes on to read the bookmarks and, unless
\* a repository call it awaits is rejected, stores a row with a new id, status
\* 'running' and no counts, makes a status with that id and all counters zero
\* the status in memory, and returns the id with alreadyRunning = FALSE.
GuardReleasedOnTermination ==
  [][\A c \in CallIds :
       /\ (/\ call[c].pc = "idle"
           /\ call'[c].pc # "idle"
           /\ activeStatus.status \in {"completed", "failed"}) =>
            /\ call'[c].pc = "await_list"
            /\ call'[c].prev = [runId |-> activeStatus.runId,
                                status |-> activeStatus.status]
       /\ (/\ call[c].prev.status \in {"completed", "failed"}
           /\ call[c].pc = "await_list"
           /\ call'[c].pc # "await_list"
           /\ ~call[c].rejected
           /\ ~call'[c].rejected) =>
            /\ call'[c].pc = "await_create"
            /\ c # call[c].prev.runId
            /\ ~runs[c].exists
            /\ runs'[c].exists
            /\ runs'[c].status = "running"
            /\ runs'[c].totalBookmarks = Len(call[c].bookmarks)
            /\ CountersOf(runs'[c]) = CountersOf(NullStatus)
       /\ (/\ call[c].prev.status \in {"completed", "failed"}
           /\ call[c].pc = "await_create"
           /\ call'[c].pc # "await_create"
           /\ ~call[c].rejected) =>
            /\ call'[c].pc = "returned"
            /\ call'[c].result = [runId |-> c, alreadyRunning |-> FALSE]
            /\ activeStatus' = NewStatus(c, Len(call[c].bookmarks))
            /\ pipe'[c].pc \notin {"none", "done", "escaped"}
    ]_vars

\* a run was started after a run that failed and is now the run in memory
StartedAfterTermination ==
  \E c \in CallIds :
    /\ Started(c)
    /\ call[c].prev.status = "failed"
    /\ runs[call[c].prev.runId].status = "failed"
    /\ runs[c].exists
    /\ activeStatus.runId = c
    /\ activeStatus.status = "running"

\* ---- C36
\* the positions of executeRun between the cache partition and the upsert of
\* the final rows
BeforeFinalRows ==
  {"await_upsertCache", "await_persist1", "await_discover", "await_categorize",
   "await_persistCat", "await_summarize", "await_persistSum"}

\* C36: a run started with ignoreCache = TRUE takes no bookmark from the cache:
\* cachedCount is 0 in memory and in its row as long as it runs and when it
\* has ended, every bookmark it prepared is one to process, it writes no triage
\* row before the final rows, and when it completes every bookmark of its
\* snapshot has a categorization result of this run.
IgnoreCacheProcessesAll ==
  \A r \in CallIds :
    (pipe[r].pc # "none" /\ pipe[r].ignoreCache) =>
      /\ runs[r].cachedCount = 0
      /\ activeStatus.runId = r => activeStatus.cachedCount = 0
      /\ pipe[r].cacheRows = <<>>
      /\ Partitioned(r) => pipe[r].toProcess = pipe[r].prepared
      /\ pipe[r].pc \in BeforeFinalRows =>
           \A b \in StoredIds : triage[b].exists => triage[b].triageRunId # r
      /\ RanToCompletion(r) =>
           /\ Ids(pipe[r].toProcess) = Ids(pipe[r].bookmarks)
           /\ \A b \in Ids(pipe[r].bookmarks) : pipe[r].results[b].present

\* ---- C37
\* the run of the status in memory has ended and the status is terminal
EndedInMemory(r) ==
  /\ pipe[r].pc = "done"
  /\ activeStatus.runId = r
  /\ activeStatus.status \in {"completed", "failed"}

\* C37: when a run has ended with a terminal status in memory, its row holds the
\* same status and the same processed, cached, categorized, uncategorized,
\* failed, apiCalls and token counters as the status in memory, whether the run
\* completed or failed.
TerminalRowMatchesStatus ==
  \A r \in CallIds :
    EndedInMemory(r) =>
      /\ runs[r].exists
      /\ runs[r].status = activeStatus.status
      /\ CountersOf(runs[r]) = CountersOf(activeStatus)

\* ---- C38
\* the positions of executeRun before the upsert of the final rows has returned
BeforeRowsStored ==
  {"await_cache", "preparing", "await_upsertCache", "await_persist1", "await_discover",
   "await_categorize", "await_persistCat", "await_summarize", "await_persistSum",
   "await_upsertRows"}

\* run r ends its cache partition in this step
PartitionEnds(r) == pipe[r].pc = "preparing" /\ pipe'[r].pc = "await_upsertCache"

\* run r calls the upsert of its final rows in this step
FinalRowsUpserted(r) == pipe[r].pc # "await_upsertRows" /\ pipe'[r].pc = "await_upsertRows"

\* the row of a cache hit of run r: what the row held, stamped with the run id
\* and with the fingerprint and source type of this run's preparation
Restamped(r, b) ==
  /\ triage'[b].exists
  /\ triage'[b].triageRunId = r
  /\ \A f \in {"category", "tags", "summary", "reasonCode", "confidence"} :
       triage'[b][f] = pipe[r].cache[b][f]

\* summarization is over for run r: every batch of runSummaries has been sent
SummariesOver(p) == p.sumIdx > Len(SummaryBatches(p))

\* C38 as it is stated: when a run fails before the upsert of its final rows has
\* returned, the stored row of every bookmark that was not a cache hit is what
\* it was when the run started, and every cache-hit row carries the run's id.
FailedEarlyRowsAsStated ==
  [][\A r \in CallIds :
       (pipe[r].pc \in BeforeRowsStored /\ pipe'[r].pc = "await_failRun") =>
         /\ \A b \in StoredIds \ Hits(r) : triage'[b] = pipe[r].cache[b]
         /\ \A b \in Hits(r) : triage'[b].exists /\ triage'[b].triageRunId = r]_vars

\* C38: the triage store changes only in two steps of a run.  The step that ends
\* the cache partition stores the rows of the cache hits, stamped with the run
\* id, unless that upsert is rejected; the step after the last summarization
\* batch stores the rows of the bookmarks to process.  No other step writes a
\* row, so a run that fails before its final upsert has returned has written no
\* row of a bookmark that was not a cache hit.
RowsWrittenAtTwoPoints ==
  [][/\ \A b \in StoredIds :
          triage'[b] # triage[b] =>
            \E r \in CallIds :
              \/ PartitionEnds(r) /\ b \in Hits(r)' /\ Restamped(r, b)
              \/ /\ FinalRowsUpserted(r)
                 /\ b \in Ids(pipe[r].toProcess)
                 /\ SummariesOver(pipe'[r])
                 /\ triage'[b].triageRunId = r
     /\ \A r \in CallIds :
          /\ (PartitionEnds(r) /\ ~pipe'[r].rejected) =>
               \A b \in Hits(r)' : Restamped(r, b)
          /\ (pipe[r].pc \in BeforeRowsStored /\ pipe'[r].pc = "await_failRun") =>
               \A b \in StoredIds \ Hits(r) : triage'[b] = triage[b]]_vars

\* a run failed before its final rows: the row of its cache hit carries its id
\* and the bookmark it had categorized afresh has no row
FailedWithHitStampedOnly ==
  \E r \in CallIds, b, c \in StoredIds :
    /\ pipe[r].pc = "done"
    /\ pipe[r].err # Null
    /\ b \in Hits(r)
    /\ triage[b].exists /\ triage[b].triageRunId = r
    /\ c \in Ids(pipe[r].toProcess)
    /\ pipe[r].results[c].present
    /\ ~triage[c].exists

\* ---- C39
\* the stages of a run in their order; failed has no place in it
StageOrder ==
  <<"preparing", "discovering_categories", "categorizing", "summarizing", "finalizing",
    "completed">>

StageRank(stage) == CHOOSE k \in 1..Len(StageOrder) : StageOrder[k] = stage

\* status and stage of the status in memory go together
StatusMatchesStage ==
  activeStatus.status # Null =>
    /\ activeStatus.status \in {"running", "completed", "failed"}
    /\ activeStatus.status = "running" <=>
         activeStatus.stage \in {"preparing", "discovering_categories", "categorizing",
                                 "summarizing", "finalizing"}
    /\ activeStatus.status = "completed" <=> activeStatus.stage = "completed"
    /\ activeStatus.status = "failed" <=> activeStatus.stage = "failed"

\* the stage of the run in memory changes to a later stage or to failed only
StageMovesForward ==
  (/\ activeStatus.status # Null
   /\ activeStatus'.runId = activeStatus.runId
   /\ activeStatus'.stage # activeStatus.stage) =>
     /\ activeStatus.stage \notin {"completed", "failed"}
     /\ \/ activeStatus'.stage = "failed"
        \/ /\ activeStatus'.stage \in Range(StageOrder)
           /\ StageRank(activeStatus.stage) < StageRank(activeStatus'.stage)

\* C39: in every state the status in memory is 'running' exactly in the stages
\* preparing, discovering_categories, categorizing, summarizing and finalizing,
\* 'completed' exactly in stage completed and 'failed' exactly in stage failed;
\* and within one run the stage only moves forward in that order or to failed.
StageFollowsRun == []StatusMatchesStage /\ [][StageMovesForward]_vars

\* ---- C40
\* the address that decides the kind of source: finalUrl if there is one
EffectiveUrl(bookmark) ==
  IF bookmark.finalUrl # NullUrl THEN bookmark.finalUrl ELSE bookmark.url

\* C40: every prepared bookmark has one of the four source types, by these rules
\* in this order: 'unsupported' when its effective address is not http(s),
\* whatever its status; else 'dead' for status dead, 'redirected' for status
\* redirected and 'live' for every other status, null included.  Its targetUrl
\* is finalUrl only when the status is redirected and finalUrl is not null, else
\* url.  (That the live and the redirected ones are the ones fetched, from
\* targetUrl, is FetchOnlyLiveOrRedirected.)
SourceClassifiedByPriority ==
  \A r \in CallIds :
    \A k \in 1..Len(pipe[r].prepared) :
      LET p == pipe[r].prepared[k]
          http == StartsWithHttp(EffectiveUrl(p))
      IN /\ \E j \in 1..Len(pipe[r].bookmarks) :
              /\ pipe[r].bookmarks[j].id = p.id
              /\ pipe[r].bookmarks[j].status = p.status
              /\ pipe[r].bookmarks[j].url = p.url
              /\ pipe[r].bookmarks[j].finalUrl = p.finalUrl
         /\ p.sourceType \in {"live", "redirected", "dead", "unsupported"}
         /\ ~http => p.sourceType = "unsupported"
         /\ (http /\ p.status = "dead") => p.sourceType = "dead"
         /\ (http /\ p.status = "redirected") => p.sourceType = "redirected"
         /\ (http /\ p.status \notin {"dead", "redirected"}) => p.sourceType = "live"
         /\ p.targetUrl = IF p.status = "redirected" /\ p.finalUrl # NullUrl
                          THEN p.finalUrl ELSE p.url

\* a bookmark with status dead whose final address is not http(s), although
\* its url is, was prepared as 'unsupported'
DeadLinkPreparedAsUnsupported ==
  \E r \in CallIds :
    \E k \in 1..Len(pipe[r].prepared) :
      /\ pipe[r].prepared[k].status = "dead"
      /\ StartsWithHttp(pipe[r].prepared[k].url)
      /\ pipe[r].prepared[k].finalUrl # NullUrl
      /\ ~StartsWithHttp(pipe[r].prepared[k].finalUrl)
      /\ pipe[r].prepared[k].sourceType = "unsupported"
      /\ pipe[r].prepared[k].targetUrl = pipe[r].prepared[k].url

====
